---- MODULE Spec2Model ----
(***************************************************************************)
(* Model of market_analyzer.py: the analysis cache (AICacheManager), the   *)
(* cached pipeline (generate_enhanced_report / get_intelligent_analysis)   *)
(* and the pure scoring functions it is built from.                        *)
(*                                                                         *)
(* Time is counted in whole hours.  A Python value is a tagged record      *)
(* [t, v]; a dict keeps its insertion order as a sequence of <<key, value>>*)
(* pairs, as CPython does.                                                 *)
(***************************************************************************)
EXTENDS Integers, Sequences, FiniteSets, TLC

VARIABLES
    now,              \* datetime.now(), in hours
    runs,             \* number of generate_enhanced_report calls started
    store,            \* the cache directory: file name (key) -> [content, mtime]
    pc,               \* per pipeline instance: position in generate_enhanced_report
    args,             \* per instance: the four arguments of generate_enhanced_report
    cache_key,        \* per instance: local cache_key of get_intelligent_analysis
    cached_analysis,  \* per instance: local cached_analysis
    analysis_result,  \* per instance: local analysis_result
    returned,         \* per instance: intelligent_analysis, the value returned
    ops,              \* per instance: the calls made so far in this run, with outcome
    written,          \* key -> [v, t]: arguments of the last completed save_analysis
    cutoff_time,      \* per instance: local cutoff_time of clean_old_cache
    cache_data,       \* per instance: local cache_data of save_analysis
    listing,          \* per instance: the names of os.listdir still to be visited
    victim,           \* per instance: the file found old, about to be removed
    fd,               \* per instance: the file open for writing: closed, open
                      \* (still in the directory) or unlinked (removed meanwhile)
    puts,             \* number of save_analysis calls completed
    origin,           \* key -> number of the save whose text the file holds (0: none)
    lastPut,          \* key -> the save that completed last: its number n, and
                      \* whether its file was still in the directory (kept)
    fpA, fpB, fpKeyA, fpKeyB,   \* two datasets and their cache keys
    topics,                     \* analyze_sentiment: its argument
    sentiment_analysis,         \* analyze_sentiment: what it returned
    quotes,                     \* the hot_stocks the rule engine is called with
    theme_analysis,             \* the ranking: what analyze_theme_popularity
                                \* returned last, what the rule engine is given
    market_strength,            \* what calculate_market_strength returned
    risk_assessment,            \* what assess_risks returned
    strategy,                   \* what generate_strategy returned (empty: not called)
    hot_themes,                 \* analyze_theme_popularity: its argument themes
    industry_news,              \* analyze_theme_popularity: its argument news_list
    hashseed,                   \* the string hash order of the running interpreter
    sum_err,                    \* rounding error of the float sums over hot_themes
    ranked,                     \* theme_analysis is the ranking of hot_themes
    first_call,                 \* what its first call was given and returned
    shuffles                    \* number of times hot_themes was reordered

vars == <<now, runs, store, pc, args, cache_key, cached_analysis,
          analysis_result, returned, ops, written,
          cutoff_time, cache_data, listing, victim, fd, puts, origin, lastPut,
          fpA, fpB, fpKeyA, fpKeyB, topics, sentiment_analysis,
          quotes, theme_analysis, market_strength, risk_assessment, strategy,
          hot_themes, industry_news, hashseed, sum_err, ranked, first_call,
          shuffles>>

ioVars == <<cutoff_time, cache_data, listing, victim, fd, puts, origin, lastPut>>
cacheVars == <<now, runs, store, pc, args, cache_key, cached_analysis,
               analysis_result, returned, ops, written, ioVars>>
fpVars == <<fpA, fpB, fpKeyA, fpKeyB>>
sentVars == <<topics, sentiment_analysis>>
ruleVars == <<quotes, theme_analysis, market_strength, risk_assessment, strategy>>
themeVars == <<hot_themes, industry_news, hashseed, sum_err, ranked, first_call,
               shuffles>>

-----------------------------------------------------------------------------
(* Bounds of the model *)
MaxRuns == 3
MaxTopics == 2
MaxQuotes == 2
MaxThemes == 2
MaxShuffles == 1
MaxTime == 174

(* Program constants *)
max_age_hours == 6
max_days == 7
HoursPerDay == 24

-----------------------------------------------------------------------------
(* Python values *)
Null == [t |-> "null", v |-> 0]
Num(n) == [t |-> "num", v |-> n]
Str(s) == [t |-> "str", v |-> s]
List(s) == [t |-> "list", v |-> s]
Dict(pairs) == [t |-> "dict", v |-> pairs]

\* bool(x) of a Python value
Truthy(x) ==
    CASE x.t = "null" -> FALSE
      [] x.t = "num" -> x.v # 0
      [] x.t = "str" -> x.v # ""
      [] OTHER -> Len(x.v) > 0

\* d.get(key, default) on a dict value
DictGet(d, key, default) ==
    IF \E i \in 1..Len(d.v) : d.v[i][1] = key
    THEN d.v[CHOOSE i \in 1..Len(d.v) : d.v[i][1] = key][2]
    ELSE default

\* round(num / den, ndigits) in units of the last digit kept, den > 0: the nearest
\* integer to num / den, a value half way between two going to the even one
RoundHalfEven(num, den) ==
    LET q == num \div den
        r == num - q * den
    IN  IF 2 * r < den THEN q
        ELSE IF 2 * r > den THEN q + 1
        ELSE IF q % 2 = 0 THEN q ELSE q + 1

\* A float result stands for its exact value and the sign of its rounding error:
\* the error is far smaller than any digit kept, so it decides only what equals a
\* threshold exactly or lies exactly half way between two rounded values
FloatErrs == {-1, 0, 1}

\* x > bound on floats, x = a and bound = b up to the rounding error of x
FloatGT(a, b, err) == a > b \/ (a = b /\ err > 0)

\* x >= bound on floats
FloatGE(a, b, err) == a > b \/ (a = b /\ err >= 0)

\* round(x, ndigits) of a float x = num / den with rounding error of sign err
RoundFloat(num, den, err) ==
    LET q == num \div den
        r == num - q * den
    IN  IF 2 * r = den /\ err < 0 THEN q
        ELSE IF 2 * r = den /\ err > 0 THEN q + 1
        ELSE RoundHalfEven(num, den)

-----------------------------------------------------------------------------
(* json.dumps(data, sort_keys=True, ensure_ascii=False) and the cache key *)

\* The dict keys that occur, in the order Python's string comparison gives them
FieldNames == <<"amount", "analysis", "avg_sentiment", "change_pct", "hot_stocks",
                "industry_news", "sentiment_analysis", "theme_analysis",
                "timestamp", "title">>

KeyRank(k) == CHOOSE i \in 1..Len(FieldNames) : FieldNames[i] = k

DigitChars == <<"0", "1", "2", "3", "4", "5", "6", "7", "8", "9">>

RECURSIVE DigitsOf(_)
DigitsOf(n) ==
    IF n < 10 THEN <<DigitChars[n + 1]>>
    ELSE DigitsOf(n \div 10) \o <<DigitChars[(n % 10) + 1]>>

\* repr of a number, digit by digit
NumRepr(n) == IF n < 0 THEN <<"-">> \o DigitsOf(-n) ELSE DigitsOf(n)

RECURSIVE InsertPair(_, _)
InsertPair(p, sorted) ==
    IF sorted = <<>> THEN <<p>>
    ELSE IF KeyRank(p[1]) < KeyRank(Head(sorted)[1])
         THEN <<p>> \o sorted
         ELSE <<Head(sorted)>> \o InsertPair(p, Tail(sorted))

\* sorted(dct.items()), as the encoder does under sort_keys=True
RECURSIVE SortPairs(_)
SortPairs(pairs) ==
    IF pairs = <<>> THEN <<>>
    ELSE InsertPair(Head(pairs), SortPairs(Tail(pairs)))

RECURSIVE json_dumps(_, _)
RECURSIVE dumps_items(_, _)
RECURSIVE dumps_pairs(_, _)

dumps_items(items, sort_keys) ==
    IF items = <<>> THEN <<>>
    ELSE json_dumps(Head(items), sort_keys)
         \o (IF Len(items) > 1 THEN <<", ">> ELSE <<>>)
         \o dumps_items(Tail(items), sort_keys)

dumps_pairs(pairs, sort_keys) ==
    IF pairs = <<>> THEN <<>>
    ELSE <<"\"", Head(pairs)[1], "\"", ": ">>
         \o json_dumps(Head(pairs)[2], sort_keys)
         \o (IF Len(pairs) > 1 THEN <<", ">> ELSE <<>>)
         \o dumps_pairs(Tail(pairs), sort_keys)

\* The text json.dumps produces, as its sequence of tokens
json_dumps(x, sort_keys) ==
    CASE x.t = "null" -> <<"null">>
      [] x.t = "num" -> NumRepr(x.v)
      [] x.t = "str" -> <<"\"", x.v, "\"">>
      [] x.t = "list" -> <<"[">> \o dumps_items(x.v, sort_keys) \o <<"]">>
      [] x.t = "dict" ->
            <<"{">>
            \o dumps_pairs(IF sort_keys THEN SortPairs(x.v) ELSE x.v, sort_keys)
            \o <<"}">>

\* hashlib.md5(...).hexdigest(), taken as collision-free: the digest names its input
md5_hexdigest(text) == <<"md5">> \o text

get_cache_key_unsorted(data) == md5_hexdigest(json_dumps(data, FALSE))

\* AICacheManager.get_cache_key
get_cache_key(data) == md5_hexdigest(json_dumps(data, TRUE))


-----------------------------------------------------------------------------
(* The narrative: the string enhanced_rule_based_analysis returns.  A      *)
(* narrative is kept as what determines its text: which template it is,    *)
(* the inputs the report is formatted from, and the hour printed in it.    *)

None == [kind |-> "None", body |-> <<>>, at |-> 0]

\* generate_default_analysis: a plain (not f-) string, the same text at any hour
generate_default_analysis == [kind |-> "default", body |-> <<>>, at |-> 0]

\* The rule engine without its check for empty hot_stocks
enhanced_rule_based_analysis_unguarded(data, at) ==
    [kind |-> "report",
     body |-> <<DictGet(data, "hot_stocks", List(<<>>)),
                DictGet(data, "sentiment_analysis", Dict(<<>>)),
                DictGet(data, "theme_analysis", List(<<>>))>>,
     at |-> at]

\* enhanced_rule_based_analysis(data), called at hour `at`
enhanced_rule_based_analysis(data, at) ==
    LET hot_stocks == DictGet(data, "hot_stocks", List(<<>>))
        sentiment == DictGet(data, "sentiment_analysis", Dict(<<>>))
        themes == DictGet(data, "theme_analysis", List(<<>>))
    IN  IF ~Truthy(hot_stocks)
        THEN generate_default_analysis
        ELSE [kind |-> "report", body |-> <<hot_stocks, sentiment, themes>>, at |-> at]

\* The test of the cached value turned around
NarrativeTruthy_inverted(a) == a.kind = "None"

\* `if cached_analysis:` on a narrative or None
NarrativeTruthy(a) == a.kind # "None"

-----------------------------------------------------------------------------
(* AICacheManager: the cache directory and its three operations *)

isoformat(t) == [iso |-> t]
fromisoformat(s) == s.iso

\* The text json.dump(cache_data, f, ...) writes, as its sequence of tokens
cache_text(timestamp, analysis) ==
    <<"{", "timestamp", isoformat(timestamp), "analysis", analysis, "}">>

CacheTextLen == 6

\* json.load(f): the dict read, or the JSONDecodeError a truncated text gives
json_load(content) ==
    IF Len(content) = CacheTextLen
    THEN [raised |-> FALSE, timestamp |-> content[3], analysis |-> content[5]]
    ELSE [raised |-> TRUE, timestamp |-> isoformat(0), analysis |-> None]

\* get_cached_analysis with the exception of the read left to escape
get_cached_analysis_uncaught(key, max_age) ==
    IF key \notin DOMAIN store
    THEN [raised |-> FALSE, value |-> None, outcome |-> "absent"]
    ELSE LET cached_data == json_load(store[key].content)
         IN  IF cached_data.raised
             THEN [raised |-> TRUE, value |-> None, outcome |-> "unreadable"]
             ELSE IF now - fromisoformat(cached_data.timestamp) < max_age
                  THEN [raised |-> FALSE, value |-> cached_data.analysis,
                        outcome |-> "hit"]
                  ELSE [raised |-> FALSE, value |-> None, outcome |-> "expired"]

\* get_cached_analysis with the age test turned around to <=
get_cached_analysis_le(key, max_age) ==
    IF key \notin DOMAIN store
    THEN [raised |-> FALSE, value |-> None, outcome |-> "absent"]
    ELSE LET cached_data == json_load(store[key].content)
         IN  IF cached_data.raised
             THEN [raised |-> FALSE, value |-> None, outcome |-> "unreadable"]
             ELSE IF now - fromisoformat(cached_data.timestamp) <= max_age
                  THEN [raised |-> FALSE, value |-> cached_data.analysis,
                        outcome |-> "hit"]
                  ELSE [raised |-> FALSE, value |-> None, outcome |-> "expired"]

\* get_cached_analysis with the age test turned the wrong way round
get_cached_analysis_gt(key, max_age) ==
    IF key \notin DOMAIN store
    THEN [raised |-> FALSE, value |-> None, outcome |-> "absent"]
    ELSE LET cached_data == json_load(store[key].content)
         IN  IF cached_data.raised
             THEN [raised |-> FALSE, value |-> None, outcome |-> "unreadable"]
             ELSE IF now - fromisoformat(cached_data.timestamp) > max_age
                  THEN [raised |-> FALSE, value |-> cached_data.analysis,
                        outcome |-> "hit"]
                  ELSE [raised |-> FALSE, value |-> None, outcome |-> "expired"]

\* AICacheManager.get_cached_analysis(cache_key, max_age_hours): what it returns
\* (raised: an exception leaves the function), and which branch it took
get_cached_analysis(key, max_age) ==
    IF key \notin DOMAIN store
    THEN [raised |-> FALSE, value |-> None, outcome |-> "absent"]
    ELSE LET cached_data == json_load(store[key].content)
         IN  IF cached_data.raised
             THEN [raised |-> FALSE, value |-> None, outcome |-> "unreadable"]
             ELSE IF now - fromisoformat(cached_data.timestamp) < max_age
                  THEN [raised |-> FALSE, value |-> cached_data.analysis,
                        outcome |-> "hit"]
                  ELSE [raised |-> FALSE, value |-> None, outcome |-> "expired"]

\* How a write can end: open() fails, or the file is opened (and so emptied) and
\* n tokens of the text reach it: the text up to the timestamp, or all of it
WriteOutcomes ==
    {[opened |-> FALSE, n |-> 0]}
    \cup {[opened |-> TRUE, n |-> n] : n \in {3, CacheTextLen}}

\* A read that removes the entry it finds expired
store_after_get_evicting(key, max_age) ==
    IF get_cached_analysis(key, max_age).outcome = "expired"
    THEN [k \in DOMAIN store \ {key} |-> store[k]]
    ELSE store

\* The directory after get_cached_analysis: it opens the file for reading only and
\* removes nothing
store_after_get(key, max_age) == store

\* A write that stores the date in place of the time
written_file_dated(analysis, w) ==
    [content |-> SubSeq(cache_text(now - (now % HoursPerDay), analysis), 1, w.n),
     mtime |-> now]

\* The file open(cache_file, 'w') and json.dump leave when the write ends as w
written_file(analysis, w) ==
    [content |-> SubSeq(cache_text(now, analysis), 1, w.n), mtime |-> now]

\* save_analysis with the exception of a failed write left to escape
save_analysis_uncaught(key, analysis, w) ==
    [raised |-> ~(w.opened /\ w.n = CacheTextLen),
     store |-> IF ~w.opened THEN store
               ELSE [k \in DOMAIN store \cup {key} |->
                       IF k = key THEN written_file(analysis, w) ELSE store[k]]]

\* AICacheManager.save_analysis(cache_key, analysis) whose write ends as w: the
\* directory it leaves, and whether an exception leaves the function
save_analysis(key, analysis, w) ==
    [raised |-> FALSE,
     store |-> IF ~w.opened THEN store
               ELSE [k \in DOMAIN store \cup {key} |->
                       IF k = key THEN written_file(analysis, w) ELSE store[k]]]

\* A sweep that goes by the timestamp stored in the entry
OldFiles_by_timestamp(days) ==
    {k \in DOMAIN store :
        /\ ~json_load(store[k].content).raised
        /\ fromisoformat(json_load(store[k].content).timestamp) < now - days * HoursPerDay}

\* A sweep with its comparison turned around: it removes the newer files
OldFiles_newer(days) == {k \in DOMAIN store : store[k].mtime > now - days * HoursPerDay}

\* The files clean_old_cache(max_days) removes
OldFiles(days) == {k \in DOMAIN store : store[k].mtime < now - days * HoursPerDay}

\* The directory after clean_old_cache(max_days)
clean_old_cache(days) == [k \in DOMAIN store \ OldFiles(days) |-> store[k]]


-----------------------------------------------------------------------------
(* analyze_sentiment.  A sentiment is counted in ten-thousandths (0.6 is    *)
(* 6000), the rounded average in thousandths (0.6 is 600).                  *)

PositiveAbove == 6000
NegativeBelow == 4000
NeutralDefault == 5000
EffectHighAbove == 6000
EffectMediumAbove == 5000
EffectLowAbove == 4000

\* What the scorer makes of a text: a sentiment, or an exception.  A topic's text
\* is named by it.
ScorerFails == -1
SentimentValues == {0, 3999, 4000, 4004, 5000, 5004, 6000, 6004, 10000}
TopicTexts == SentimentValues \cup {ScorerFails}

\* SnowNLP(text).sentiments
SnowNLP_sentiments(text) == [raised |-> text = ScorerFails, value |-> text]

\* The classification with the boundaries included
classify_inclusive(sentiment) ==
    IF sentiment >= PositiveAbove THEN "positive"
    ELSE IF sentiment <= NegativeBelow THEN "negative"
    ELSE "neutral"

\* 'positive' if sentiment > 0.6 else 'negative' if sentiment < 0.4 else 'neutral'
classify(sentiment) ==
    IF sentiment > PositiveAbove THEN "positive"
    ELSE IF sentiment < NegativeBelow THEN "negative"
    ELSE "neutral"

\* The entry the loop body appends for one topic
score_topic(topic) ==
    LET s == SnowNLP_sentiments(topic.topic)
    IN  IF s.raised
        THEN [topic |-> topic.topic, source |-> topic.source,
              sentiment |-> NeutralDefault, classification |-> "neutral"]
        ELSE [topic |-> topic.topic, source |-> topic.source,
              sentiment |-> s.value, classification |-> classify(s.value)]

RECURSIVE SumSentiment(_)
SumSentiment(scores) ==
    IF scores = <<>> THEN 0 ELSE Head(scores).sentiment + SumSentiment(Tail(scores))

CountClass(scores, c) == Cardinality({j \in 1..Len(scores) : scores[j].classification = c})

\* The average cut to three decimals instead of rounded
RoundedAvg_truncated(total, n, err) == total \div (10 * n)

\* round(avg_sentiment, 3) of a total in ten-thousandths, in thousandths
RoundedAvg(total, n, err) == RoundFloat(total, 10 * n, err)

\* The rounding errors sum(...) / len(...) can carry: none for a single score
MeanErrs(tps) == IF Len(tps) <= 1 THEN {0} ELSE FloatErrs

NotCalled == [t |-> "unset"]
NoSummary == [t |-> "None"]

\* The summary of the entries appended so far
summary_of(scores, err) ==
    LET total == SumSentiment(scores)
        n == Len(scores)
    IN  [t |-> "dict",
         sentiment_scores |-> scores,
         avg_sentiment |-> RoundedAvg(total, n, err),
         market_effect |->
             IF FloatGT(total, EffectHighAbove * n, err) THEN "profit_pronounced"
             ELSE IF FloatGT(total, EffectMediumAbove * n, err) THEN "profit_mild"
             ELSE IF FloatGT(total, EffectLowAbove * n, err) THEN "loss_mild"
             ELSE "loss_pronounced",
         effect_level |->
             IF FloatGT(total, EffectHighAbove * n, err) THEN "high"
             ELSE IF FloatGT(total, EffectMediumAbove * n, err) THEN "medium"
             ELSE IF FloatGT(total, EffectLowAbove * n, err) THEN "medium"
             ELSE "high",
         positive_count |-> CountClass(scores, "positive"),
         negative_count |-> CountClass(scores, "negative"),
         neutral_count |-> CountClass(scores, "neutral")]

\* The topics up to and including the first one the scorer fails on
RECURSIVE UpToFailure(_)
UpToFailure(tps) ==
    IF tps = <<>> THEN <<>>
    ELSE IF SnowNLP_sentiments(Head(tps).topic).raised THEN <<Head(tps)>>
    ELSE <<Head(tps)>> \o UpToFailure(Tail(tps))

\* analyze_sentiment with the try around the loop: the first failure ends the scoring
analyze_sentiment_aborting(tps, err) ==
    IF tps = <<>> THEN NoSummary
    ELSE LET done == UpToFailure(tps)
         IN  summary_of([j \in 1..Len(done) |-> score_topic(done[j])], err)

\* analyze_sentiment(topics): None, or the summary dict; err is the rounding
\* error of the float avg_sentiment
analyze_sentiment(tps, err) ==
    IF tps = <<>> THEN NoSummary
    ELSE summary_of([j \in 1..Len(tps) |-> score_topic(tps[j])], err)


-----------------------------------------------------------------------------
(* The rule engine: calculate_market_strength and assess_risks.  A change_pct *)
(* is counted in hundredths of a percent, an amount in units of 10,000, an    *)
(* avg_sentiment in thousandths, a popularity_score in hundredths and a       *)
(* market strength score in tenths.                                           *)

TopQuotes == 5               \* hot_stocks[:5]
VolumeDivisor == 5           \* sum(amount ...) / 5
VolumeFull == 100            \* 1000000: volume_strength / 1000000
DefaultSentiment == 500      \* {'avg_sentiment': 0.5} and .get('avg_sentiment', 0.5)
EmptyScore == 30             \* 'score': 3 of the record for no hot stocks
StrongFrom == 7              \* score >= 7
ChoppyFrom == 5              \* score >= 5
GainHighAbove == 800         \* top_gain > 8
GainModerateAbove == 500     \* top_gain > 5
SentimentHotAbove == 800     \* sentiment_score > 0.8
SentimentColdBelow == 300    \* sentiment_score < 0.3
VolumeLowBelow == 50         \* avg_volume < 500000
VolumeHighAbove == 200       \* avg_volume > 2000000
ThemeHotAbove == 900         \* top_theme['popularity_score'] > 9
ThemeMomentumAbove == 500    \* top_theme['avg_change'] > 5
HighRiskFrom == 3            \* len(risks) >= 3
MediumRiskFrom == 1          \* len(risks) >= 1

Min(a, b) == IF a < b THEN a ELSE b

RECURSIVE SumField(_, _)
\* sum(s[field] for s in items)
SumField(items, field) ==
    IF items = <<>> THEN 0 ELSE Head(items)[field] + SumField(Tail(items), field)

\* items[:n]
Slice(items, n) == SubSeq(items, 1, Min(n, Len(items)))

\* What sentiment.get raises when sentiment is None
AttributeError == -1

\* The None check left out
sentiment_or_default_unchecked(sentiment) == sentiment

\* if sentiment is None: sentiment = {'avg_sentiment': 0.5}
sentiment_or_default(sentiment) ==
    IF sentiment.t = "None"
    THEN [t |-> "dict", avg_sentiment |-> DefaultSentiment]
    ELSE sentiment

\* sentiment.get('avg_sentiment', 0.5)
sentiment_get_avg(sentiment) ==
    IF sentiment.t = "None" THEN AttributeError
    ELSE IF "avg_sentiment" \in DOMAIN sentiment THEN sentiment.avg_sentiment
    ELSE DefaultSentiment

\* sentiment_score, as both functions of the rule engine compute it
sentiment_score_of(sentiment) == sentiment_get_avg(sentiment_or_default(sentiment))

\* score of calculate_market_strength as the fraction num / den:
\*   avg_change = sum(change_pct of hot_stocks[:5]) / len(hot_stocks[:5])
\*   volume_normalized = min(sum(amount of hot_stocks[:5]) / 5 / 1000000, 1)
\*   score = (avg_change / 10) * 4 + sentiment_score * 3 + volume_normalized * 3
market_score(hot_stocks, sentiment) ==
    LET top == Slice(hot_stocks, TopQuotes)
        m == Len(top)
        scale == VolumeDivisor * VolumeFull
    IN  [num |-> 4 * SumField(top, "change_pct") * scale
                 + 3 * sentiment_score_of(sentiment) * m * scale
                 + 3 * 1000 * m * Min(SumField(top, "amount"), scale),
         den |-> 1000 * m * scale]

\* The level with one more point asked of each threshold
strength_level_shifted(num, den, err) ==
    IF FloatGE(num, (StrongFrom + 1) * den, err) THEN "strong"
    ELSE IF FloatGE(num, (ChoppyFrom + 1) * den, err) THEN "choppy"
    ELSE "weak"

\* if score >= 7 ... elif score >= 5 ... else
strength_level(num, den, err) ==
    IF FloatGE(num, StrongFrom * den, err) THEN "strong"
    ELSE IF FloatGE(num, ChoppyFrom * den, err) THEN "choppy"
    ELSE "weak"

\* calculate_market_strength(hot_stocks, sentiment); err is the rounding error of
\* the float score
calculate_market_strength(hot_stocks, sentiment, err) ==
    IF hot_stocks = <<>>
    THEN [level |-> "weak", score |-> EmptyScore, features |-> "no_hotspot"]
    ELSE IF sentiment_score_of(sentiment) = AttributeError
    THEN [level |-> "raised", score |-> 0, features |-> "AttributeError"]
    ELSE LET sc == market_score(hot_stocks, sentiment)
             level == strength_level(sc.num, sc.den, err)
         IN  [level |-> level,
              score |-> RoundFloat(10 * sc.num, sc.den, err),
              features |-> CASE level = "strong" -> "broad_rally"
                             [] level = "choppy" -> "structural"
                             [] OTHER -> "adjusting"]

\* A note of assess_risks: which fixed text it is and the theme it names, if any
Note(text, theme) == [note |-> text, theme |-> theme]

\* The risk level with three risks needed for medium
risk_level_of_strict(risks) ==
    IF Len(risks) >= HighRiskFrom THEN "high"
    ELSE IF Len(risks) >= HighRiskFrom - 1 THEN "medium"
    ELSE "low"

\* "高" if len(risks) >= 3 else "中" if len(risks) >= 1 else "低"
risk_level_of(risks) ==
    IF Len(risks) >= HighRiskFrom THEN "high"
    ELSE IF Len(risks) >= MediumRiskFrom THEN "medium"
    ELSE "low"

\* The position suggestion of a risk level
position_suggestion_of(risk_level) ==
    CASE risk_level = "high" -> "30-50"
      [] risk_level = "medium" -> "50-70"
      [] OTHER -> "70-80"

\* assess_risks(hot_stocks, sentiment, themes)
assess_risks(hot_stocks, sentiment, themes) ==
    LET top_gain == hot_stocks[1].change_pct
        gain_risks ==
            IF hot_stocks = <<>> THEN <<>>
            ELSE IF top_gain > GainHighAbove THEN <<Note("gain_too_large", "")>>
            ELSE IF top_gain > GainModerateAbove THEN <<Note("gain_divergence", "")>>
            ELSE <<>>
        sentiment_score == sentiment_score_of(sentiment)
        sentiment_risks ==
            IF sentiment_score > SentimentHotAbove
            THEN <<Note("sentiment_overheated", "")>> ELSE <<>>
        sentiment_opps ==
            IF sentiment_score <= SentimentHotAbove
               /\ sentiment_score < SentimentColdBelow
            THEN <<Note("sentiment_depressed", "")>> ELSE <<>>
        \* avg_volume = sum(...) / 5, compared without dividing
        sum_amount == SumField(Slice(hot_stocks, TopQuotes), "amount")
        volume_risks ==
            IF hot_stocks # <<>> /\ sum_amount < VolumeLowBelow * VolumeDivisor
            THEN <<Note("volume_low", "")>> ELSE <<>>
        volume_opps ==
            IF hot_stocks # <<>> /\ sum_amount >= VolumeLowBelow * VolumeDivisor
               /\ sum_amount > VolumeHighAbove * VolumeDivisor
            THEN <<Note("volume_active", "")>> ELSE <<>>
        top_theme == themes[1]
        theme_risks ==
            IF themes # <<>> /\ top_theme.popularity_score > ThemeHotAbove
            THEN <<Note("theme_overheated", top_theme.theme_name)>> ELSE <<>>
        theme_opps ==
            IF themes # <<>> /\ top_theme.popularity_score <= ThemeHotAbove
               /\ top_theme.avg_change > ThemeMomentumAbove
            THEN <<Note("theme_momentum", top_theme.theme_name)>> ELSE <<>>
        risks == gain_risks \o sentiment_risks \o volume_risks \o theme_risks
        risk_level == risk_level_of(risks)
    IN  IF sentiment_score = AttributeError
        THEN [level |-> "raised", risks |-> <<>>, opportunities |-> <<>>,
              position_suggestion |-> "AttributeError"]
        ELSE
        [level |-> risk_level,
         risks |-> risks,
         opportunities |-> sentiment_opps \o volume_opps \o theme_opps,
         position_suggestion |-> position_suggestion_of(risk_level)]

\* The strategy string is the sequence of the blocks of text it is made of: one
\* of the four templates, then the theme-focus block with the two names put in
Template(name) == [block |-> name, first |-> "", second |-> ""]
FocusNote(first, second) == [block |-> "focus", first |-> first, second |-> second]

\* The template chosen by the risk level alone
template_of_by_risk(strength, risk) ==
    CASE risk = "low" -> Template("aggressive")
      [] risk = "medium" -> Template("structural")
      [] OTHER -> Template("defensive")

\* if level == '强市' and risk == '低' ... elif level == '强市' and risk == '中' ...
\* elif level == '震荡市' ... else
template_of(strength, risk) ==
    IF strength = "strong" /\ risk = "low" THEN Template("aggressive")
    ELSE IF strength = "strong" /\ risk = "medium" THEN Template("structural")
    ELSE IF strength = "choppy" THEN Template("range_bound")
    ELSE Template("defensive")

\* The focus note added only from two themes on
focus_note_from_two(themes) ==
    IF Len(themes) > 1
    THEN <<FocusNote(themes[1].theme_name, themes[2].theme_name)>>
    ELSE <<>>

\* if themes: strategy += f"...{themes[0]['theme_name']}、{themes[1]['theme_name']
\* if len(themes) > 1 else ''}..."
focus_note(themes) ==
    IF themes # <<>>
    THEN <<FocusNote(themes[1].theme_name,
                     IF Len(themes) > 1 THEN themes[2].theme_name ELSE "")>>
    ELSE <<>>

\* generate_strategy(market_strength, risk_assessment, themes)
generate_strategy(strength, risk, themes) ==
    <<template_of(strength.level, risk.level)>> \o focus_note(themes)

-----------------------------------------------------------------------------
(* analyze_theme_popularity.  A text is the sequence of its characters; a     *)
(* change_pct and an avg_change are counted in hundredths of a percent, a     *)
(* popularity_score in hundredths.                                            *)

TopThemes == 10              \* theme_ranking[:10]
LeadingKept == 3             \* list(stats['leading_stocks'])[:3]
NewsKept == 3                \* stats['related_news'][:3]

\* str.lower() on the characters that occur
LowerChar(c) ==
    CASE c = "A" -> "a"
      [] c = "I" -> "i"
      [] OTHER -> c

lower(text) == [j \in 1..Len(text) |-> LowerChar(text[j])]

\* pat in text
Contains(text, pat) ==
    \E k \in 0..(Len(text) - Len(pat)) : SubSeq(text, k + 1, k + Len(pat)) = pat

\* leading_stock.strip() on the strings that occur: empty for blank ones
strip(str) == IF str \in {"", " "} THEN "" ELSE str

\* The entry theme_stats gets for a name not seen before
NewStat(theme_name) ==
    [theme_name |-> theme_name, count |-> 0, total_change |-> 0,
     sources |-> {}, leading_stocks |-> {}]

\* The set a theme's leading_stock is added to, blank ones included
leading_added_unfiltered(stocks, theme) == stocks \cup {theme.leading_stock}

\* if theme['leading_stock']: ... if leading_stock.strip(): leading_stocks.add(...)
leading_added(stocks, theme) ==
    IF theme.leading_stock # "" /\ strip(theme.leading_stock) # ""
    THEN stocks \cup {theme.leading_stock}
    ELSE stocks

\* One pass of the first loop: theme_stats, a dict in insertion order, after `theme`
AddTheme(theme_stats, theme) ==
    LET known == \E i \in 1..Len(theme_stats) :
                    theme_stats[i].theme_name = theme.theme_name
        stats == IF known THEN theme_stats
                 ELSE Append(theme_stats, NewStat(theme.theme_name))
        i == CHOOSE i \in 1..Len(stats) : stats[i].theme_name = theme.theme_name
    IN  [stats EXCEPT ![i] =
            [theme_name |-> @.theme_name,
             count |-> @.count + 1,
             total_change |-> @.total_change + theme.change_pct,
             sources |-> @.sources \cup {theme.source},
             leading_stocks |-> leading_added(@.leading_stocks, theme)]]

RECURSIVE GroupThemes(_)
\* theme_stats after the first loop
GroupThemes(themes) ==
    IF themes = <<>> THEN <<>>
    ELSE AddTheme(GroupThemes(SubSeq(themes, 1, Len(themes) - 1)),
                  themes[Len(themes)])

\* f"{news['title']} {news['summary']}".lower()
news_text(news) == lower(news.title \o <<" ">> \o news.summary)

RECURSIVE RelatedNews(_, _)
\* related_news of a theme after the second loop: the matching news, in scan order
RelatedNews(theme_name, news_list) ==
    IF news_list = <<>> THEN <<>>
    ELSE (IF Contains(news_text(Head(news_list)), lower(theme_name))
          THEN <<[title |-> Head(news_list).title,
                  source |-> Head(news_list).source,
                  link |-> Head(news_list).link]>>
          ELSE <<>>)
         \o RelatedNews(theme_name, Tail(news_list))

\* list(a_set): the members in the order the interpreter's string hashes give
ListOfSet(members, seed) == SelectSeq(seed, LAMBDA x : x \in members)

\* A record of the ranking, as analyze_theme_popularity builds it
ThemePopularity(name, score, count, avg, news, sources, stocks, related) ==
    [theme_name |-> name, popularity_score |-> score, count |-> count,
     avg_change |-> avg, news_count |-> news, source_count |-> sources,
     leading_stocks |-> stocks, related_news |-> related]

\* popularity_score with the news weighed by the related_news kept
popularity_score_kept(count, total_change, news_count, source_count, err) ==
    RoundFloat(4000 * count * count + 3 * total_change
                 + count * (2000 * Min(news_count, NewsKept) + 1000 * source_count),
               100 * count, err)

\* round(popularity_score, 2), in hundredths, of
\*   count * 0.4 + (avg_change / 10) * 0.3 + news_count * 0.2 + source_count * 0.1
\* with avg_change = total_change / count: over the denominator 10000 * count
popularity_score(count, total_change, news_count, source_count, err) ==
    RoundFloat(4000 * count * count + 3 * total_change
                 + count * (2000 * news_count + 1000 * source_count),
               100 * count, err)

\* The dict appended to theme_ranking for one entry of theme_stats
RankingEntry(stats, news_list, seed, err) ==
    LET related_news == RelatedNews(stats.theme_name, news_list)
        news_count == Len(related_news)
        source_count == Cardinality(stats.sources)
    IN  ThemePopularity(
            stats.theme_name,
            popularity_score(stats.count, stats.total_change, news_count,
                             source_count, err),
            stats.count,
            RoundFloat(stats.total_change, stats.count, err),
            news_count,
            source_count,
            Slice(ListOfSet(stats.leading_stocks, seed), LeadingKept),
            Slice(related_news, NewsKept))

RECURSIVE InsertRanked(_, _)
\* x put behind every entry of `sorted` that scores at least as high
InsertRanked(x, sorted) ==
    IF sorted = <<>> THEN <<x>>
    ELSE IF Head(sorted).popularity_score >= x.popularity_score
         THEN <<Head(sorted)>> \o InsertRanked(x, Tail(sorted))
         ELSE <<x>> \o sorted

RECURSIVE SortRanking(_)
\* theme_ranking.sort(key=popularity_score, reverse=True): a stable sort
SortRanking(ranking) ==
    IF ranking = <<>> THEN <<>>
    ELSE InsertRanked(ranking[Len(ranking)],
                      SortRanking(SubSeq(ranking, 1, Len(ranking) - 1)))

\* The ranking left in the order of theme_stats
analyze_theme_popularity_unsorted(themes, news_list, seed, err) ==
    LET theme_stats == GroupThemes(themes)
    IN  Slice([i \in 1..Len(theme_stats) |->
                  RankingEntry(theme_stats[i], news_list, seed, err)], TopThemes)

\* analyze_theme_popularity(themes, news_list), run by an interpreter whose string
\* hashes order sets as `seed`; err is the rounding error of the float sums
analyze_theme_popularity(themes, news_list, seed, err) ==
    LET theme_stats == GroupThemes(themes)
        theme_ranking == [i \in 1..Len(theme_stats) |->
                             RankingEntry(theme_stats[i], news_list, seed, err)]
    IN  Slice(SortRanking(theme_ranking), TopThemes)

-----------------------------------------------------------------------------
(* The cached pipeline: generate_enhanced_report and get_intelligent_analysis *)

Procs == {1, 2}      \* pipeline instances that may share the cache directory
Solo == {1}          \* the design's deployment: one instance at a time

\* The records the collaborators deliver to a run
Stock(c) == Dict(<<<<"change_pct", Num(c)>>, <<"amount", Num(1)>>>>)
SomeStocks == List(<<Stock(1)>>)
SomeSentiment == Dict(<<<<"avg_sentiment", Num(5)>>>>)
SomeThemes == List(<<Dict(<<<<"title", Str("t")>>>>)>>)
SomeNews == List(<<Dict(<<<<"title", Str("n")>>>>)>>)

MakeArgs(hs, sa, ta, news) ==
    [hot_stocks |-> hs, sentiment_analysis |-> sa,
     theme_analysis |-> ta, industry_news |-> news]

\* The argument tuples a run may be entered with
RunInputs ==
    { MakeArgs(List(<<>>), Null, List(<<>>), List(<<>>)),
      MakeArgs(List(<<>>), SomeSentiment, SomeThemes, SomeNews),
      MakeArgs(SomeStocks, Null, List(<<>>), List(<<>>)),
      MakeArgs(SomeStocks, SomeSentiment, SomeThemes, SomeNews) }

NoArgs == MakeArgs(List(<<>>), Null, List(<<>>), List(<<>>))

\* analysis_data, the dict literal of generate_enhanced_report
analysis_data(a) ==
    Dict(<< <<"hot_stocks", a.hot_stocks>>,
            <<"sentiment_analysis", a.sentiment_analysis>>,
            <<"theme_analysis", a.theme_analysis>>,
            <<"industry_news", a.industry_news>> >>)

NoKey == <<>>
NoData == [timestamp |-> 0, analysis |-> None]

\* A run that goes to the cache without cleaning it first
Start_no_sweep(i, a) ==
    /\ pc[i] = "idle"
    /\ runs < MaxRuns
    /\ runs' = runs + 1
    /\ pc' = [pc EXCEPT ![i] = "get"]
    /\ args' = [args EXCEPT ![i] = a]
    /\ UNCHANGED <<now, store, cache_key, cached_analysis, analysis_result,
                   returned, ops, written>>

\* generate_enhanced_report is entered with its four arguments
Start(i, a) ==
    /\ pc[i] = "idle"
    /\ runs < MaxRuns
    /\ runs' = runs + 1
    /\ pc' = [pc EXCEPT ![i] = "clean"]
    /\ args' = [args EXCEPT ![i] = a]
    /\ UNCHANGED <<now, store, cache_key, cached_analysis, analysis_result,
                   returned, ops, written>>

\* cache_manager.clean_old_cache()
CleanOldCache(i) ==
    /\ pc[i] = "clean"
    /\ store' = clean_old_cache(max_days)
    /\ ops' = [ops EXCEPT ![i] = Append(@, "clean")]
    /\ pc' = [pc EXCEPT ![i] = "get"]
    /\ UNCHANGED <<now, runs, args, cache_key, cached_analysis,
                   analysis_result, returned, written>>

\* get_intelligent_analysis up to `if cached_analysis: return cached_analysis`
GetCached(i) ==
    /\ pc[i] = "get"
    /\ LET key == get_cache_key(analysis_data(args[i]))
           r == get_cached_analysis(key, max_age_hours)
       IN  /\ cache_key' = [cache_key EXCEPT ![i] = key]
           /\ ops' = [ops EXCEPT ![i] = Append(@, "get:" \o r.outcome)]
           /\ IF r.raised
              THEN /\ pc' = [pc EXCEPT ![i] = "raised"]
                   /\ UNCHANGED <<cached_analysis, returned>>
              ELSE /\ cached_analysis' = [cached_analysis EXCEPT ![i] = r.value]
                   /\ IF NarrativeTruthy(r.value)
                      THEN /\ returned' = [returned EXCEPT ![i] = r.value]
                           /\ pc' = [pc EXCEPT ![i] = "done"]
                      ELSE /\ pc' = [pc EXCEPT ![i] = "rules"]
                           /\ UNCHANGED returned
    /\ store' = store_after_get(get_cache_key(analysis_data(args[i])), max_age_hours)
    /\ UNCHANGED <<now, runs, args, analysis_result, written>>

\* analysis_result = enhanced_rule_based_analysis(data)
RunRules(i) ==
    /\ pc[i] = "rules"
    /\ analysis_result' = [analysis_result EXCEPT ![i] =
                              enhanced_rule_based_analysis(analysis_data(args[i]), now)]
    /\ ops' = [ops EXCEPT ![i] = Append(@, "rules")]
    /\ pc' = [pc EXCEPT ![i] = "save"]
    /\ UNCHANGED <<now, runs, store, args, cache_key, cached_analysis,
                   returned, written>>

\* cache_manager.save_analysis(cache_key, analysis_result); return analysis_result
SaveAnalysis(i, w) ==
    /\ pc[i] = "save"
    /\ LET r == save_analysis(cache_key[i], analysis_result[i], w)
       IN  /\ store' = r.store
           /\ IF r.raised
              THEN /\ pc' = [pc EXCEPT ![i] = "raised"]
                   /\ UNCHANGED returned
              ELSE /\ pc' = [pc EXCEPT ![i] = "done"]
                   /\ returned' = [returned EXCEPT ![i] = analysis_result[i]]
    /\ written' =
         IF w.opened /\ w.n = CacheTextLen
         THEN [k \in DOMAIN written \cup {cache_key[i]} |->
                 IF k = cache_key[i] THEN [v |-> analysis_result[i], t |-> now]
                 ELSE written[k]]
         ELSE IF w.opened
              THEN [k \in DOMAIN written \ {cache_key[i]} |-> written[k]]
              ELSE written
    /\ ops' = [ops EXCEPT ![i] =
                  Append(@, IF w.opened /\ w.n = CacheTextLen THEN "save:ok"
                            ELSE "save:failed")]
    /\ UNCHANGED <<now, runs, args, cache_key, cached_analysis, analysis_result>>

\* generate_enhanced_report returns (or its exception ends the process): the
\* locals of the run are gone
Finish(i) ==
    /\ pc[i] \in {"done", "raised"}
    /\ pc' = [pc EXCEPT ![i] = "idle"]
    /\ args' = [args EXCEPT ![i] = NoArgs]
    /\ cache_key' = [cache_key EXCEPT ![i] = NoKey]
    /\ cached_analysis' = [cached_analysis EXCEPT ![i] = None]
    /\ analysis_result' = [analysis_result EXCEPT ![i] = None]
    /\ returned' = [returned EXCEPT ![i] = None]
    /\ ops' = [ops EXCEPT ![i] = <<>>]
    /\ UNCHANGED <<now, runs, store, written>>

\* The clock readings at which something happens: the start, just inside and at
\* the read age limit, at and just past the sweep age limit, and the same two
\* again for a file written at the read age limit
Instants ==
    {t \in {0, max_age_hours - 1, max_age_hours,
            max_days * HoursPerDay, max_days * HoursPerDay + 1,
            max_days * HoursPerDay + max_age_hours,
            max_days * HoursPerDay + max_age_hours + 1} : t <= MaxTime}

\* Time passes between runs (a run takes seconds, the clock counts hours)
Tick(t) ==
    /\ \A i \in Procs : pc[i] = "idle"
    /\ t > now
    /\ now' = t
    /\ UNCHANGED <<runs, store, pc, args, cache_key, cached_analysis,
                   analysis_result, returned, ops, written>>

\* Another program rewrites a cache file's modification time (touch)
Touch(k) ==
    /\ \A i \in Procs : pc[i] = "idle"
    /\ k \in DOMAIN store
    /\ store[k].mtime < now
    /\ store' = [store EXCEPT ![k].mtime = now]
    /\ UNCHANGED <<now, runs, pc, args, cache_key, cached_analysis,
                   analysis_result, returned, ops, written>>

InitCache ==
    /\ now = 0
    /\ runs = 0
    /\ store = <<>>
    /\ pc = [i \in Procs |-> "idle"]
    /\ args = [i \in Procs |-> NoArgs]
    /\ cache_key = [i \in Procs |-> NoKey]
    /\ cached_analysis = [i \in Procs |-> None]
    /\ analysis_result = [i \in Procs |-> None]
    /\ returned = [i \in Procs |-> None]
    /\ ops = [i \in Procs |-> <<>>]
    /\ written = <<>>
    /\ cutoff_time = [i \in Procs |-> 0]
    /\ cache_data = [i \in Procs |-> NoData]
    /\ listing = [i \in Procs |-> {}]
    /\ victim = [i \in Procs |-> NoKey]
    /\ fd = [i \in Procs |-> "closed"]
    /\ puts = 0
    /\ origin = <<>>
    /\ lastPut = <<>>

IdleFp == fpA = Null /\ fpB = Null /\ fpKeyA = NoKey /\ fpKeyB = NoKey
IdleSent == topics = <<>> /\ sentiment_analysis = NotCalled
IdleRules ==
    /\ quotes = <<>>
    /\ theme_analysis = <<>>
    /\ market_strength = NotCalled
    /\ risk_assessment = NotCalled
    /\ strategy = <<>>
IdleThemes ==
    /\ hot_themes = <<>>
    /\ industry_news = <<>>
    /\ hashseed = <<>>
    /\ sum_err = 0
    /\ ranked = FALSE
    /\ first_call = NotCalled
    /\ shuffles = 0

\* One step of instance i, its runs entered with arguments from `inputs` and its
\* writes ending as one of `outcomes`
Step(i, inputs, outcomes) ==
    \/ \E a \in inputs : Start(i, a)
    \/ CleanOldCache(i)
    \/ GetCached(i)
    \/ RunRules(i)
    \/ \E w \in outcomes : SaveAnalysis(i, w)
    \/ Finish(i)

Next ==
    /\ \/ \E i \in Solo : Step(i, RunInputs, WriteOutcomes)
       \/ \E t \in Instants : Tick(t)
    /\ UNCHANGED <<fpVars, sentVars, ruleVars, themeVars, ioVars>>

Init == InitCache /\ IdleFp /\ IdleSent /\ IdleRules /\ IdleThemes

Spec == Init /\ [][Next]_vars


\* The cache directory with files that other programs may touch; the runs take
\* two of the datasets and their writes either complete or stop half way
TouchedInputs ==
    { MakeArgs(List(<<>>), Null, List(<<>>), List(<<>>)),
      MakeArgs(SomeStocks, SomeSentiment, SomeThemes, SomeNews) }

TouchedOutcomes == {w \in WriteOutcomes : w.opened}

NextTouched ==
    /\ \/ \E i \in Solo : Step(i, TouchedInputs, TouchedOutcomes)
       \/ \E t \in Instants : Tick(t)
       \/ \E k \in DOMAIN store : Touch(k)
    /\ UNCHANGED <<fpVars, sentVars, ruleVars, themeVars, ioVars>>

SpecTouched == Init /\ [][NextTouched]_vars

-----------------------------------------------------------------------------
(* Two instances of the pipeline on one cache directory.  Each system call   *)
(* of the three cache operations is a step of its own, so that the steps of  *)
(* the two instances interleave.  A cache text fits the buffers of its file  *)
(* object and reaches the file in one write when the file is closed.         *)

\* cutoff_time = ...; for filename in os.listdir(self.cache_dir)
SweepList(i) ==
    /\ pc[i] = "clean"
    /\ cutoff_time' = [cutoff_time EXCEPT ![i] = now - max_days * HoursPerDay]
    /\ listing' = [listing EXCEPT ![i] = DOMAIN store]
    /\ pc' = [pc EXCEPT ![i] = "stat"]
    /\ UNCHANGED <<now, runs, store, args, cache_key, cached_analysis,
                   analysis_result, returned, ops, written,
                   cache_data, victim, fd, puts, origin, lastPut>>

\* A sweep whose os.path.getmtime lets the error of a missing file escape
sweep_stat_uncaught(k, cutoff) ==
    IF k \notin DOMAIN store THEN [raised |-> TRUE, old |-> FALSE]
    ELSE [raised |-> FALSE, old |-> store[k].mtime < cutoff]

\* try: file_time = fromtimestamp(os.path.getmtime(file_path));
\* file_time < cutoff_time ... except Exception: print
sweep_stat(k, cutoff) ==
    IF k \notin DOMAIN store THEN [raised |-> FALSE, old |-> FALSE]
    ELSE [raised |-> FALSE, old |-> store[k].mtime < cutoff]

\* One turn of the loop of clean_old_cache up to `if file_time < cutoff_time`
SweepStat(i, k) ==
    /\ pc[i] = "stat"
    /\ k \in listing[i]
    /\ listing' = [listing EXCEPT ![i] = @ \ {k}]
    /\ LET r == sweep_stat(k, cutoff_time[i])
       IN  IF r.raised
           THEN /\ pc' = [pc EXCEPT ![i] = "raised"]
                /\ UNCHANGED victim
           ELSE IF r.old
           THEN /\ pc' = [pc EXCEPT ![i] = "remove"]
                /\ victim' = [victim EXCEPT ![i] = k]
           ELSE UNCHANGED <<pc, victim>>
    /\ UNCHANGED <<now, runs, store, args, cache_key, cached_analysis,
                   analysis_result, returned, ops, written,
                   cutoff_time, cache_data, fd, puts, origin, lastPut>>

\* os.remove(file_path): the name leaves the directory (a FileNotFoundError is
\* caught); a file another instance has open for writing lives on without a name
SweepRemove(i) ==
    /\ pc[i] = "remove"
    /\ LET k == victim[i]
       IN  /\ store' = [f \in DOMAIN store \ {k} |-> store[f]]
           /\ origin' = [f \in DOMAIN origin \ {k} |-> origin[f]]
           /\ fd' = [j \in Procs |->
                       IF fd[j] = "open" /\ cache_key[j] = k /\ k \in DOMAIN store
                       THEN "unlinked" ELSE fd[j]]
    /\ victim' = [victim EXCEPT ![i] = NoKey]
    /\ pc' = [pc EXCEPT ![i] = "stat"]
    /\ UNCHANGED <<now, runs, args, cache_key, cached_analysis,
                   analysis_result, returned, ops, written,
                   cutoff_time, cache_data, listing, puts, lastPut>>

\* The loop of clean_old_cache has visited every name
SweepEnd(i) ==
    /\ pc[i] = "stat"
    /\ listing[i] = {}
    /\ ops' = [ops EXCEPT ![i] = Append(@, "clean")]
    /\ pc' = [pc EXCEPT ![i] = "exists"]
    /\ cutoff_time' = [cutoff_time EXCEPT ![i] = 0]
    /\ UNCHANGED <<now, runs, store, args, cache_key, cached_analysis,
                   analysis_result, returned, written,
                   cache_data, listing, victim, fd, puts, origin, lastPut>>

\* cache_key = get_cache_key(data); if os.path.exists(cache_file)
GetExists(i) ==
    /\ pc[i] = "exists"
    /\ LET key == get_cache_key(analysis_data(args[i]))
       IN  /\ cache_key' = [cache_key EXCEPT ![i] = key]
           /\ IF key \in DOMAIN store
              THEN /\ pc' = [pc EXCEPT ![i] = "read"]
                   /\ UNCHANGED <<cached_analysis, ops>>
              ELSE /\ pc' = [pc EXCEPT ![i] = "rules"]
                   /\ cached_analysis' = [cached_analysis EXCEPT ![i] = None]
                   /\ ops' = [ops EXCEPT ![i] = Append(@, "get:absent")]
    /\ UNCHANGED <<now, runs, store, args, analysis_result, returned, written,
                   ioVars>>

\* The read of get_cached_analysis with the error of a missing file left to escape
open_and_load_uncaught(key, max_age) ==
    IF key \notin DOMAIN store
    THEN [raised |-> TRUE, value |-> None, outcome |-> "vanished"]
    ELSE get_cached_analysis(key, max_age)

\* try: with open(cache_file, 'r') ...: json.load(f) ... except Exception: the
\* file seen by os.path.exists may be gone by now
open_and_load(key, max_age) ==
    IF key \notin DOMAIN store
    THEN [raised |-> FALSE, value |-> None, outcome |-> "vanished"]
    ELSE get_cached_analysis(key, max_age)

\* The rest of get_cached_analysis and `if cached_analysis: return cached_analysis`
GetRead(i) ==
    /\ pc[i] = "read"
    /\ LET r == open_and_load(cache_key[i], max_age_hours)
       IN  /\ ops' = [ops EXCEPT ![i] = Append(@, "get:" \o r.outcome)]
           /\ IF r.raised
              THEN /\ pc' = [pc EXCEPT ![i] = "raised"]
                   /\ UNCHANGED <<cached_analysis, returned>>
              ELSE /\ cached_analysis' = [cached_analysis EXCEPT ![i] = r.value]
                   /\ IF NarrativeTruthy(r.value)
                      THEN /\ returned' = [returned EXCEPT ![i] = r.value]
                           /\ pc' = [pc EXCEPT ![i] = "done"]
                      ELSE /\ pc' = [pc EXCEPT ![i] = "rules"]
                           /\ UNCHANGED returned
    /\ UNCHANGED <<now, runs, store, args, cache_key, analysis_result, written,
                   ioVars>>

\* cache_data = {'timestamp': datetime.now().isoformat(), 'analysis': analysis};
\* with open(cache_file, 'w', ...) as f: the file is created, or emptied if it
\* is there (the file another instance has open is the same file)
PutOpen(i) ==
    /\ pc[i] = "save"
    /\ cache_data' = [cache_data EXCEPT ![i] =
                         [timestamp |-> now, analysis |-> analysis_result[i]]]
    /\ LET k == cache_key[i]
       IN  /\ store' = [f \in DOMAIN store \cup {k} |->
                          IF f = k THEN [content |-> <<>>, mtime |-> now]
                          ELSE store[f]]
           /\ origin' = [f \in DOMAIN origin \cup {k} |->
                           IF f = k THEN 0 ELSE origin[f]]
    /\ fd' = [fd EXCEPT ![i] = "open"]
    /\ pc' = [pc EXCEPT ![i] = "write"]
    /\ UNCHANGED <<now, runs, args, cache_key, cached_analysis, analysis_result,
                   returned, ops, written, cutoff_time, listing, victim, puts,
                   lastPut>>

\* Where the text goes when the file is closed: into the file of that name, or
\* into a file that has no name any more
put_target(i) == fd[i]

\* json.dump(cache_data, f, ...) and the end of the with block: the text is
\* written at the start of the file; return analysis_result
PutClose(i) ==
    /\ pc[i] = "write"
    /\ LET k == cache_key[i]
           text == cache_text(cache_data[i].timestamp, cache_data[i].analysis)
       IN  /\ IF put_target(i) = "open"
              THEN /\ store' = [f \in DOMAIN store \cup {k} |->
                                  IF f = k THEN [content |-> text, mtime |-> now]
                                  ELSE store[f]]
                   /\ origin' = [f \in DOMAIN origin \cup {k} |->
                                   IF f = k THEN puts + 1 ELSE origin[f]]
              ELSE UNCHANGED <<store, origin>>
           /\ lastPut' = [f \in DOMAIN lastPut \cup {k} |->
                            IF f = k
                            THEN [n |-> puts + 1, kept |-> put_target(i) = "open"]
                            ELSE lastPut[f]]
           /\ written' = [f \in DOMAIN written \cup {k} |->
                            IF f = k
                            THEN [v |-> cache_data[i].analysis,
                                  t |-> cache_data[i].timestamp]
                            ELSE written[f]]
    /\ cache_data' = [cache_data EXCEPT ![i] = NoData]
    /\ puts' = puts + 1
    /\ fd' = [fd EXCEPT ![i] = "closed"]
    /\ returned' = [returned EXCEPT ![i] = analysis_result[i]]
    /\ ops' = [ops EXCEPT ![i] = Append(@, "save:ok")]
    /\ pc' = [pc EXCEPT ![i] = "done"]
    /\ UNCHANGED <<now, runs, args, cache_key, cached_analysis, analysis_result,
                   cutoff_time, listing, victim>>

\* Time passes, also while a run is under way: every datetime.now() of a run
\* is a reading of its own
Pass(t) ==
    /\ t > now
    /\ now' = t
    /\ UNCHANGED <<runs, store, pc, args, cache_key, cached_analysis,
                   analysis_result, returned, ops, written, ioVars>>

\* The directory as an earlier run at hour 0 left it: empty, or holding the
\* entry of one dataset
EarlierEntry(a) ==
    LET data == analysis_data(a)
    IN  [key |-> get_cache_key(data),
         file |-> [content |-> cache_text(0, enhanced_rule_based_analysis(data, 0)),
                   mtime |-> 0],
         put |-> [v |-> enhanced_rule_based_analysis(data, 0), t |-> 0]]

InitShared ==
    /\ now = 0
    /\ runs = 0
    /\ \/ /\ store = <<>>
          /\ written = <<>>
          /\ puts = 0
          /\ origin = <<>>
          /\ lastPut = <<>>
       \/ \E a \in TouchedInputs :
             LET e == EarlierEntry(a)
             IN  /\ store = [k \in {e.key} |-> e.file]
                 /\ written = [k \in {e.key} |-> e.put]
                 /\ puts = 1
                 /\ origin = [k \in {e.key} |-> 1]
                 /\ lastPut = [k \in {e.key} |-> [n |-> 1, kept |-> TRUE]]
    /\ pc = [i \in Procs |-> "idle"]
    /\ args = [i \in Procs |-> NoArgs]
    /\ cache_key = [i \in Procs |-> NoKey]
    /\ cached_analysis = [i \in Procs |-> None]
    /\ analysis_result = [i \in Procs |-> None]
    /\ returned = [i \in Procs |-> None]
    /\ ops = [i \in Procs |-> <<>>]
    /\ cutoff_time = [i \in Procs |-> 0]
    /\ cache_data = [i \in Procs |-> NoData]
    /\ listing = [i \in Procs |-> {}]
    /\ victim = [i \in Procs |-> NoKey]
    /\ fd = [i \in Procs |-> "closed"]
    /\ IdleFp /\ IdleSent /\ IdleRules /\ IdleThemes

\* One step of instance i, a process that runs the pipeline once
StepShared(i) ==
    \/ (\E a \in TouchedInputs : Start(i, a)) /\ UNCHANGED ioVars
    \/ SweepList(i)
    \/ \E k \in listing[i] : SweepStat(i, k)
    \/ SweepRemove(i)
    \/ SweepEnd(i)
    \/ GetExists(i)
    \/ GetRead(i)
    \/ RunRules(i) /\ UNCHANGED ioVars
    \/ PutOpen(i)
    \/ PutClose(i)

NextShared ==
    /\ \/ \E i \in Procs : StepShared(i)
       \/ \E t \in Instants : Pass(t)
    /\ UNCHANGED <<fpVars, sentVars, ruleVars, themeVars>>

SpecShared == InitShared /\ [][NextShared]_vars

-----------------------------------------------------------------------------
(* get_cache_key on its own: two datasets, each a dict in some insertion order *)

Dicts2(k1, V1, k2, V2) ==
    {Dict(<< <<k1, a>>, <<k2, b>> >>) : a \in V1, b \in V2}
    \cup {Dict(<< <<k2, b>>, <<k1, a>> >>) : a \in V1, b \in V2}

FpStocks == Dicts2("change_pct", {Num(0), Num(1)}, "amount", {Num(0), Num(1)})
FpHotStocks == {List(<<>>)} \cup {List(<<q>>) : q \in FpStocks}
FpSentiment == {Null, SomeSentiment}
FpDatasets == Dicts2("hot_stocks", FpHotStocks, "sentiment_analysis", FpSentiment)

\* The dataset as the mapping it denotes, whatever order its keys were inserted in
RECURSIVE AsMapping(_)
AsMapping(x) ==
    CASE x.t = "dict" ->
            [t |-> "dict",
             v |-> {<<x.v[j][1], AsMapping(x.v[j][2])>> : j \in 1..Len(x.v)}]
      [] x.t = "list" -> [t |-> "list", v |-> [j \in 1..Len(x.v) |-> AsMapping(x.v[j])]]
      [] OTHER -> x

SameValues(A, B) == AsMapping(A) = AsMapping(B)

ComputeKeys ==
    /\ fpKeyA = NoKey
    /\ fpKeyA' = get_cache_key(fpA)
    /\ fpKeyB' = get_cache_key(fpB)
    /\ UNCHANGED <<fpA, fpB, cacheVars, sentVars, ruleVars, themeVars>>

InitFingerprint ==
    /\ fpA \in FpDatasets
    /\ fpB \in FpDatasets
    /\ fpKeyA = NoKey
    /\ fpKeyB = NoKey
    /\ InitCache
    /\ IdleSent
    /\ IdleRules
    /\ IdleThemes

SpecFingerprint == InitFingerprint /\ [][ComputeKeys]_vars


-----------------------------------------------------------------------------
(* analyze_sentiment on its own *)

TopicLists ==
    UNION {[1..n -> {[topic |-> x, source |-> "xueqiu"] : x \in TopicTexts}] :
             n \in 0..MaxTopics}

AnalyzeSentiment ==
    /\ sentiment_analysis = NotCalled
    /\ \E err \in MeanErrs(topics) :
           sentiment_analysis' = analyze_sentiment(topics, err)
    /\ UNCHANGED <<topics, cacheVars, fpVars, ruleVars, themeVars>>

InitSentiment ==
    /\ topics \in TopicLists
    /\ sentiment_analysis = NotCalled
    /\ InitCache
    /\ IdleFp
    /\ IdleRules
    /\ IdleThemes

SpecSentiment == InitSentiment /\ [][AnalyzeSentiment]_vars


-----------------------------------------------------------------------------
(* The rule engine on its own: the sentiment summary of some topics, then    *)
(* calculate_market_strength and assess_risks on some quotes and a ranking   *)

Quote(c, a) == [change_pct |-> c, amount |-> a]

\* 9.1% on 2.5 million; 6.15% on 5 million; 1% on 2 million; -2% on 0.2 million
RuleQuotes == {Quote(910, 250), Quote(615, 500), Quote(100, 200), Quote(-200, 20)}

\* Four more quotes, 2.5 million each
PadQuotes == <<Quote(600, 250), Quote(200, 250), Quote(100, 250), Quote(50, 250)>>

QuoteLists ==
    {p \o t : p \in UNION {[1..n -> RuleQuotes] : n \in 0..MaxQuotes},
              t \in {<<>>, PadQuotes}}

RuleTopicTexts == {0, 5000, 6000, 10000}
RuleTopicLists ==
    UNION {[1..n -> {[topic |-> x, source |-> "xueqiu"] : x \in RuleTopicTexts}] :
             n \in 0..MaxTopics}

HotTheme == ThemePopularity("a", 950, 20, 300, 5, 2, <<>>, <<>>)
MomentumTheme == ThemePopularity("b", 900, 20, 550, 4, 2, <<>>, <<>>)
PlainTheme == ThemePopularity("c", 50, 1, 500, 0, 1, <<>>, <<>>)

RuleRankings == {<<>>, <<HotTheme>>, <<MomentumTheme, PlainTheme>>, <<PlainTheme>>}

CalculateMarketStrength ==
    /\ sentiment_analysis # NotCalled
    /\ market_strength = NotCalled
    /\ \E err \in FloatErrs :
           market_strength' = calculate_market_strength(quotes, sentiment_analysis, err)
    /\ UNCHANGED <<quotes, theme_analysis, risk_assessment, strategy,
                   cacheVars, fpVars, sentVars, themeVars>>

AssessRisks ==
    /\ market_strength # NotCalled
    /\ risk_assessment = NotCalled
    /\ risk_assessment' = assess_risks(quotes, sentiment_analysis, theme_analysis)
    /\ UNCHANGED <<quotes, theme_analysis, market_strength, strategy,
                   cacheVars, fpVars, sentVars, themeVars>>

InitRules ==
    /\ topics \in RuleTopicLists
    /\ sentiment_analysis = NotCalled
    /\ quotes \in QuoteLists
    /\ theme_analysis \in RuleRankings
    /\ market_strength = NotCalled
    /\ risk_assessment = NotCalled
    /\ strategy = <<>>
    /\ InitCache
    /\ IdleFp
    /\ IdleThemes

NextRules == AnalyzeSentiment \/ CalculateMarketStrength \/ AssessRisks

SpecRules == InitRules /\ [][NextRules]_vars

-----------------------------------------------------------------------------
(* generate_strategy on its own: called on a market strength, a risk         *)
(* assessment and a ranking                                                  *)

StrengthLevels == {"strong", "choppy", "weak"}
RiskLevels == {"low", "medium", "high"}

\* The records calculate_market_strength and assess_risks return, by level
StrengthsGiven ==
    {[level |-> l, score |-> EmptyScore,
      features |-> CASE l = "strong" -> "broad_rally"
                     [] l = "choppy" -> "structural"
                     [] OTHER -> "adjusting"] : l \in StrengthLevels}
RisksGiven ==
    {[level |-> l, risks |-> <<>>, opportunities |-> <<>>,
      position_suggestion |-> position_suggestion_of(l)] : l \in RiskLevels}

\* The rankings of none, one, two or three of the themes, best score first
StrategyRankings ==
    {SelectSeq(<<HotTheme, MomentumTheme, PlainTheme>>,
               LAMBDA e : e.theme_name \in names) : names \in SUBSET {"a", "b", "c"}}

GenerateStrategy ==
    /\ strategy = <<>>
    /\ strategy' = generate_strategy(market_strength, risk_assessment, theme_analysis)
    /\ UNCHANGED <<quotes, theme_analysis, market_strength, risk_assessment,
                   cacheVars, fpVars, sentVars, themeVars>>

InitStrategy ==
    /\ market_strength \in StrengthsGiven
    /\ risk_assessment \in RisksGiven
    /\ theme_analysis \in StrategyRankings
    /\ strategy = <<>>
    /\ quotes = <<>>
    /\ InitCache
    /\ IdleFp
    /\ IdleSent
    /\ IdleThemes

SpecStrategy == InitStrategy /\ [][GenerateStrategy]_vars


-----------------------------------------------------------------------------
(* analyze_theme_popularity on its own: called on some themes and news, then  *)
(* again after the themes were reordered or in a newly started interpreter    *)

Theme(name, source, change, stock) ==
    [theme_name |-> name, source |-> source, change_pct |-> change,
     leading_stock |-> stock]

NameAI == <<"A", "I">>
NameQ == <<"q">>

\* Mentions of "AI", "ai" and "b", with and without a leading stock
SomeThemeRecords ==
    { Theme(NameAI, "eastmoney", 1000, "s1"),
      Theme(NameAI, "xueqiu", 0, ""),
      Theme(lower(NameAI), "xueqiu", 0, " "),
      Theme(<<"b">>, "eastmoney", -328, "s2"),
      Theme(NameAI, "eastmoney", 333, "s2") }

\* Four mentions of one theme whose changes average 0.235
QuadThemes ==
    << Theme(NameQ, "eastmoney", 320, ""), Theme(NameQ, "eastmoney", -90, ""),
       Theme(NameQ, "eastmoney", 350, ""), Theme(NameQ, "eastmoney", -486, "") >>

\* Eleven themes of one mention each, seven of them with the same score
LongNames == <<"c", "d", "e", "f", "g", "h", "i", "j", "k", "l", "m">>
LongChanges == <<1000, 0, -1000, 0, 1000, 0, 2000, 0, 0, 0, 0>>
LongThemes ==
    [j \in 1..Len(LongNames) |->
        Theme(<<LongNames[j]>>, "eastmoney", LongChanges[j], "")]

ThemeLists ==
    {p \o t : p \in UNION {[1..n -> SomeThemeRecords] : n \in 0..MaxThemes},
              t \in {<<>>, QuadThemes, LongThemes}}

News(title, summary) ==
    [title |-> title, summary |-> summary, source |-> "sina", link |-> title]

\* Five news of which four name "ai" in some case and one names "b"
FiveNews ==
    << News(<<"A", "i">>, <<"x">>),
       News(<<"x">>, <<"a", "I", " ", "b">>),
       News(<<"a">>, <<"i">>),
       News(<<"A", "I", "x">>, <<>>),
       News(<<"x", "a", "i">>, <<"x">>) >>

NewsLists == {<<>>, SubSeq(FiveNews, 2, 2), FiveNews}

StockNames == {"s1", "s2"}
\* The orders a set of the stock names may be listed in
HashSeeds == {<<"s1", "s2">>, <<"s2", "s1">>}

AnalyzeThemePopularity ==
    LET result == analyze_theme_popularity(hot_themes, industry_news, hashseed, sum_err)
    IN  /\ ~ranked
        /\ theme_analysis' = result
        /\ ranked' = TRUE
        /\ first_call' = IF first_call = NotCalled
                         THEN [themes |-> hot_themes, ranking |-> result]
                         ELSE first_call
        /\ UNCHANGED <<hot_themes, industry_news, hashseed, sum_err, shuffles,
                       quotes, market_strength, risk_assessment, strategy,
                       cacheVars, fpVars, sentVars>>

\* The same themes delivered with the first two exchanged: a float sum does not
\* depend on the order of its first two terms
SwapFirstThemes ==
    /\ ranked
    /\ ranked' = FALSE
    /\ shuffles < MaxShuffles
    /\ Len(hot_themes) >= 2
    /\ hot_themes' = <<hot_themes[2], hot_themes[1]>> \o Tail(Tail(hot_themes))
    /\ shuffles' = shuffles + 1
    /\ UNCHANGED <<industry_news, hashseed, sum_err, first_call, ruleVars,
                   cacheVars, fpVars, sentVars>>

\* The same themes delivered with the first one moved to the end: the float sum
\* of three or more changes may come out with another rounding error
RotateThemes ==
    /\ ranked
    /\ ranked' = FALSE
    /\ shuffles < MaxShuffles
    /\ Len(hot_themes) >= 2
    /\ hot_themes' = Tail(hot_themes) \o <<Head(hot_themes)>>
    /\ shuffles' = shuffles + 1
    /\ LET theme_stats == GroupThemes(hot_themes)
       IN  IF \E i \in 1..Len(theme_stats) : theme_stats[i].count >= 3
           THEN sum_err' \in FloatErrs
           ELSE sum_err' = sum_err
    /\ UNCHANGED <<industry_news, hashseed, first_call, ruleVars,
                   cacheVars, fpVars, sentVars>>

\* The next run of the program: a new interpreter, with string hashes of its own
Restart(seed) ==
    /\ ranked
    /\ ranked' = FALSE
    /\ hashseed # seed
    /\ hashseed' = seed
    /\ UNCHANGED <<hot_themes, industry_news, sum_err, first_call, shuffles,
                   ruleVars, cacheVars, fpVars, sentVars>>

InitThemes ==
    /\ hot_themes \in ThemeLists
    /\ industry_news \in NewsLists
    /\ hashseed \in HashSeeds
    /\ sum_err \in FloatErrs
    /\ ranked = FALSE
    /\ first_call = NotCalled
    /\ shuffles = 0
    /\ quotes = <<>>
    /\ theme_analysis = <<>>
    /\ market_strength = NotCalled
    /\ risk_assessment = NotCalled
    /\ strategy = <<>>
    /\ InitCache
    /\ IdleFp
    /\ IdleSent

NextThemes ==
    \/ AnalyzeThemePopularity
    \/ SwapFirstThemes
    \/ RotateThemes
    \/ \E seed \in HashSeeds : Restart(seed)

SpecThemes == InitThemes /\ [][NextThemes]_vars


-----------------------------------------------------------------------------
(* Properties *)

GetReturns(i) == pc[i] = "get" /\ pc'[i] # "get"
KeyOf(i) == get_cache_key(analysis_data(args[i]))
Readable(k) == k \in DOMAIN store /\ ~json_load(store[k].content).raised
StoredAt(k) == fromisoformat(json_load(store[k].content).timestamp)

\* C1: a get of a key whose entry a completed put stored at hour t, and that is
\* still in the directory, returns exactly the narrative put when less than
\* max_age_hours have passed since t, and None when max_age_hours or more have.
C1_CacheRoundTrip ==
    [][\A i \in Procs :
          (GetReturns(i) /\ KeyOf(i) \in DOMAIN written /\ KeyOf(i) \in DOMAIN store)
          => cached_analysis'[i] =
                IF now - written[KeyOf(i)].t < max_age_hours
                THEN written[KeyOf(i)].v
                ELSE None]_vars

\* A run got back, one hour before the age limit, the narrative an earlier run put
C1_Witness ==
    /\ pc[1] = "done"
    /\ ops[1] = <<"clean", "get:hit">>
    /\ cache_key[1] \in DOMAIN written
    /\ returned[1] = written[cache_key[1]].v
    /\ now - written[cache_key[1]].t = max_age_hours - 1

\* C2: get_cached_analysis leaves the directory as it found it, whatever it
\* returns: the same files with the same content and modification times.
C2_GetKeepsStore ==
    [][\A i \in Procs : GetReturns(i) => store' = store]_vars

\* A read found the entry expired, and the entry is still there with its old
\* timestamp
C2_Witness ==
    /\ pc[1] = "rules"
    /\ ops[1] = <<"clean", "get:expired">>
    /\ Readable(cache_key[1])
    /\ now - StoredAt(cache_key[1]) >= max_age_hours

\* C3: clean_old_cache removes exactly the files whose modification time is more
\* than max_days before now and leaves every other file as it was; a file whose
\* stored timestamp is that old but whose modification time is not stays.
C3_SweepByMtime ==
    [][\A i \in Procs :
          (pc[i] = "clean" /\ pc'[i] # "clean")
          => /\ DOMAIN store' =
                  {k \in DOMAIN store : ~(now - store[k].mtime > max_days * HoursPerDay)}
             /\ \A k \in DOMAIN store' : store'[k] = store[k]
             /\ \A k \in DOMAIN store :
                  (/\ Readable(k)
                   /\ now - StoredAt(k) > max_days * HoursPerDay
                   /\ now - store[k].mtime <= max_days * HoursPerDay)
                  => k \in DOMAIN store']_vars

\* A sweep has removed a file that had been written, and kept a touched file whose
\* stored timestamp is more than max_days old
C3_Witness ==
    /\ pc[1] = "get"
    /\ \E k \in DOMAIN written : k \notin DOMAIN store
    /\ \E k \in DOMAIN store :
          /\ Readable(k)
          /\ now - StoredAt(k) > max_days * HoursPerDay
          /\ store[k].mtime > StoredAt(k)

GetOps == {"get:hit", "get:absent", "get:expired", "get:unreadable"}
SaveOps == {"save:ok", "save:failed"}

\* C4: in every run the calls go: clean_old_cache once and first, then the get,
\* then, only after a get that did not return a narrative, the rule engine and
\* the put; a run that is over has made its one clean and one get.
C4_SweepFirstOnce ==
    \A i \in Procs :
        LET o == ops[i]
        IN  /\ Len(o) <= 4
            /\ \A j \in 1..Len(o) :
                  /\ o[j] = "clean" <=> j = 1
                  /\ o[j] \in GetOps <=> j = 2
                  /\ o[j] = "rules" <=> j = 3
                  /\ o[j] \in SaveOps <=> j = 4
            /\ (Len(o) >= 3 => o[2] # "get:hit")
            /\ (pc[i] \in {"get", "rules", "save", "done"} => Len(o) >= 1)
            /\ (pc[i] \in {"rules", "save", "done"} => Len(o) >= 2)
            /\ (pc[i] = "done" => Len(o) = 2 \/ Len(o) = 4)

\* A run that missed has cleaned, read, computed and written, in that order
C4_Witness ==
    /\ pc[1] = "done"
    /\ ops[1] = <<"clean", "get:absent", "rules", "save:ok">>
    /\ runs = 2

\* C5: when an earlier run has put a narrative for the same dataset less than
\* max_age_hours ago, the run returns that narrative straight from the get: the
\* rule engine is not run and nothing is put.
C5_RepeatSkipsRules ==
    [][\A i \in Procs :
          (/\ GetReturns(i)
           /\ KeyOf(i) \in DOMAIN written
           /\ now - written[KeyOf(i)].t < max_age_hours)
          => /\ pc'[i] = "done"
             /\ returned'[i] = written[KeyOf(i)].v
             /\ ops'[i] = <<"clean", "get:hit">>
             /\ analysis_result'[i] = None
             /\ store' = store]_vars

\* A second run on a dataset with quotes got the first run's report, written
\* earlier, without computing one
C5_Witness ==
    /\ pc[1] = "done"
    /\ runs >= 2
    /\ ops[1] = <<"clean", "get:hit">>
    /\ returned[1].kind = "report"
    /\ returned[1].at < now
    /\ analysis_result[1] = None

\* C6 as stated: once a complete entry is stored under a key, whatever is later
\* held under that key has the same payload and stored timestamp.
C6_EntriesImmutable ==
    [][\A k \in DOMAIN store \cap DOMAIN store' :
          Readable(k) => store'[k].content = store[k].content]_vars

\* C6, amended: the payload and stored timestamp held under a key are not changed
\* while the entry is fresh, that is while less than max_age_hours have passed
\* since its stored timestamp; a write under its key happens only once it has
\* expired.
C6_ImmutableWhileFresh ==
    [][\A k \in DOMAIN store \cap DOMAIN store' :
          (Readable(k) /\ now - StoredAt(k) < max_age_hours)
          => store'[k].content = store[k].content]_vars

\* A run found its entry expired and wrote a new one under the same key
C6_Witness ==
    /\ pc[1] = "done"
    /\ ops[1] = <<"clean", "get:expired", "rules", "save:ok">>
    /\ Readable(cache_key[1])
    /\ StoredAt(cache_key[1]) = now
    /\ now >= max_age_hours

\* C7: a get of an unreadable entry returns None and the run goes on to the rule
\* engine as on a miss; a put returns normally however its write ends; the run
\* then returns the narrative the rule engine computed.
C7_CacheFailuresSwallowed ==
    [][\A i \in Procs :
          /\ (GetReturns(i) /\ KeyOf(i) \in DOMAIN store /\ ~Readable(KeyOf(i)))
             => pc'[i] = "rules" /\ cached_analysis'[i] = None
          /\ (pc[i] = "save" /\ pc'[i] # "save")
             => /\ pc'[i] = "done"
                /\ returned'[i] = enhanced_rule_based_analysis(analysis_data(args[i]), now)]_vars

\* A run read an unreadable entry, its own write failed too, and it returned the
\* computed narrative
C7_Witness ==
    /\ pc[1] = "done"
    /\ ops[1] = <<"clean", "get:unreadable", "rules", "save:failed">>
    /\ returned[1] = analysis_result[1]
    /\ returned[1] # None

\* C8: two datasets get the same cache key exactly when they hold the same values
\* under the same keys, in whatever order the keys were inserted.
C8_FingerprintCanonical ==
    fpKeyA # NoKey => (SameValues(fpA, fpB) <=> fpKeyA = fpKeyB)

\* Two datasets that differ in insertion order only, with one key
C8_Witness ==
    /\ fpKeyA # NoKey
    /\ fpA # fpB
    /\ SameValues(fpA, fpB)
    /\ fpKeyA = fpKeyB

\* C9: no run ends in an exception; a run that is over has returned a narrative,
\* and for empty hot_stocks that narrative is the fixed default text, whatever the
\* sentiment, themes and news and whatever the cache held.
C9_AlwaysANarrative ==
    \A i \in Procs :
        /\ pc[i] # "raised"
        /\ pc[i] = "done" =>
              /\ returned[i].kind \in {"default", "report"}
              /\ ~Truthy(args[i].hot_stocks) => returned[i] = generate_default_analysis

\* A run without quotes but with sentiment, themes and news returned the default
\* text, after reading an unreadable entry
C9_Witness ==
    /\ pc[1] = "done"
    /\ ~Truthy(args[1].hot_stocks)
    /\ args[1].sentiment_analysis # Null
    /\ ops[1][2] = "get:unreadable"
    /\ returned[1] = generate_default_analysis

\* C10: every per-topic entry is positive exactly when its sentiment is above 0.6,
\* negative exactly when it is below 0.4 and neutral otherwise, so that 0.6 and
\* 0.4 themselves are neutral.
C10_Classification ==
    sentiment_analysis.t = "dict" =>
        \A j \in 1..Len(sentiment_analysis.sentiment_scores) :
            LET e == sentiment_analysis.sentiment_scores[j]
            IN  /\ e.classification = "positive" <=> e.sentiment > PositiveAbove
                /\ e.classification = "negative" <=> e.sentiment < NegativeBelow
                /\ e.classification = "neutral" <=>
                      (e.sentiment >= NegativeBelow /\ e.sentiment <= PositiveAbove)
                /\ e.sentiment \in {PositiveAbove, NegativeBelow}
                      => e.classification = "neutral"

\* Topics scored exactly 0.6 and 0.4, both neutral
C10_Witness ==
    /\ sentiment_analysis.t = "dict"
    /\ Len(sentiment_analysis.sentiment_scores) = 2
    /\ sentiment_analysis.sentiment_scores[1].sentiment = PositiveAbove
    /\ sentiment_analysis.sentiment_scores[2].sentiment = NegativeBelow
    /\ sentiment_analysis.neutral_count = 2

\* C11: a topic the scorer fails on still gets an entry, with sentiment exactly
\* 0.5 and classification neutral; the call returns a summary all the same, with
\* one entry per supplied topic, in input order, the other topics scored as usual.
C11_FailureRecoveredPerItem ==
    (sentiment_analysis # NotCalled /\ topics # <<>>) =>
        /\ sentiment_analysis.t = "dict"
        /\ Len(sentiment_analysis.sentiment_scores) = Len(topics)
        /\ \A j \in 1..Len(topics) :
              LET e == sentiment_analysis.sentiment_scores[j]
              IN  /\ e.topic = topics[j].topic
                  /\ e.source = topics[j].source
                  /\ topics[j].topic = ScorerFails =>
                        (e.sentiment = NeutralDefault /\ e.classification = "neutral")
                  /\ topics[j].topic # ScorerFails => e.sentiment = topics[j].topic

\* The scorer fails on the first of two topics and the second is scored positive
C11_Witness ==
    /\ Len(topics) = 2
    /\ topics[1].topic = ScorerFails
    /\ topics[2].topic > PositiveAbove
    /\ sentiment_analysis.t = "dict"
    /\ Len(sentiment_analysis.sentiment_scores) = 2
    /\ sentiment_analysis.sentiment_scores[1].sentiment = NeutralDefault
    /\ sentiment_analysis.sentiment_scores[2].classification = "positive"

\* The effect the thresholds of analyze_sentiment give an average of `avg` thousandths
EffectOf(avg) ==
    IF avg > EffectHighAbove \div 10 THEN <<"profit_pronounced", "high">>
    ELSE IF avg > EffectMediumAbove \div 10 THEN <<"profit_mild", "medium">>
    ELSE IF avg > EffectLowAbove \div 10 THEN <<"loss_mild", "medium">>
    ELSE <<"loss_pronounced", "high">>

\* C13 as stated: the avg the summary reports and the effect it reports satisfy
\* avg > 0.6 pronounced profit (high), 0.5 < avg <= 0.6 mild profit (medium),
\* 0.4 < avg <= 0.5 mild loss (medium), avg <= 0.4 pronounced loss (high).
C13_EffectByReportedAvg ==
    sentiment_analysis.t = "dict" =>
        <<sentiment_analysis.market_effect, sentiment_analysis.effect_level>>
            = EffectOf(sentiment_analysis.avg_sentiment)

\* C13 amended: the reported avg is the mean of the values rounded to three
\* decimals, and the effect is decided by the mean before rounding: the reported
\* avg and effect satisfy the relation of the claim except that a reported avg of
\* exactly 0.6, 0.5 or 0.4 may also carry the next effect up (the mean lies above
\* the threshold by less than 0.0005).
C13_EffectByMean ==
    sentiment_analysis.t = "dict" =>
        LET scores == sentiment_analysis.sentiment_scores
            n == Len(scores)
            total == SumSentiment(scores)
            avg == sentiment_analysis.avg_sentiment
            reported == <<sentiment_analysis.market_effect,
                          sentiment_analysis.effect_level>>
            OnThreshold == avg * 10 \in {EffectHighAbove, EffectMediumAbove,
                                         EffectLowAbove}
        IN  /\ n >= 1
            /\ 2 * (avg * 10 * n - total) <= 10 * n
            /\ 2 * (total - avg * 10 * n) <= 10 * n
            /\ ~OnThreshold => reported = EffectOf(avg)
            /\ OnThreshold => reported \in {EffectOf(avg), EffectOf(avg + 1)}
            /\ total > EffectHighAbove * n => reported[1] = "profit_pronounced"
            /\ total < EffectLowAbove * n => reported[1] = "loss_pronounced"

\* One score of 0.6004: reported avg 0.6, effect pronounced profit
C13_Witness ==
    /\ sentiment_analysis.t = "dict"
    /\ Len(sentiment_analysis.sentiment_scores) = 1
    /\ sentiment_analysis.sentiment_scores[1].sentiment = 6004
    /\ sentiment_analysis.avg_sentiment = 600
    /\ sentiment_analysis.market_effect = "profit_pronounced"
    /\ sentiment_analysis.effect_level = "high"

\* A summary whose avg is 0.5: the one analyze_sentiment gives a single score of 0.5
HalfSummary == analyze_sentiment(<<[topic |-> NeutralDefault, source |-> "xueqiu"]>>, 0)

\* C12: with no topics analyze_sentiment returns None, not a record; and
\* calculate_market_strength and assess_risks, called with None, return what they
\* return for a summary whose avg is 0.5, and neither raises.
C12_AbsentSummaryIsNeutral ==
    /\ (topics = <<>> /\ sentiment_analysis # NotCalled) => sentiment_analysis = NoSummary
    /\ (sentiment_analysis = NoSummary /\ market_strength # NotCalled) =>
          /\ market_strength.level # "raised"
          /\ \A err \in FloatErrs :
                calculate_market_strength(quotes, sentiment_analysis, err)
                    = calculate_market_strength(quotes, HalfSummary, err)
          /\ \E err \in FloatErrs :
                market_strength = calculate_market_strength(quotes, HalfSummary, err)
    /\ (sentiment_analysis = NoSummary /\ risk_assessment # NotCalled) =>
          /\ risk_assessment.level # "raised"
          /\ risk_assessment = assess_risks(quotes, HalfSummary, theme_analysis)

\* No topics, some quotes: both functions have returned, the strength computed
\* with 0.5 (9.1% on 2.5 million alone scores 0.4 * 9.1 + 1.5 + 1.5 = 6.6)
C12_Witness ==
    /\ topics = <<>>
    /\ sentiment_analysis = NoSummary
    /\ quotes = <<Quote(910, 250)>>
    /\ market_strength # NotCalled
    /\ market_strength.score = 66
    /\ risk_assessment # NotCalled
    /\ risk_assessment.level = "medium"

\* C18 as stated: for a non-empty quotes list the score is
\* (avg_change / 10) * 4 + sentiment_score * 3 + volume_normalized * 3 with
\* avg_change the mean change_pct of the first min(5, n) quotes and
\* volume_normalized = min(mean amount of those same quotes / 1,000,000, 1), also
\* for fewer than 5 quotes.  The returned score carries one decimal, so it is
\* compared with that value rounded to one decimal.
C18_ScoreFormula ==
    (quotes # <<>> /\ market_strength # NotCalled) =>
        LET top == Slice(quotes, TopQuotes)
            m == Len(top)
            sentiment_score == IF sentiment_analysis = NoSummary THEN DefaultSentiment
                               ELSE sentiment_analysis.avg_sentiment
            \* the three terms over the common denominator 1000 * m * VolumeFull
            den == 1000 * m * VolumeFull
            num == 4 * SumField(top, "change_pct") * VolumeFull
                   + 3 * sentiment_score * m * VolumeFull
                   + 3 * 1000 * Min(SumField(top, "amount"), m * VolumeFull)
        IN  \E err \in FloatErrs : market_strength.score = RoundFloat(10 * num, den, err)

\* The level the thresholds give a returned score (in tenths)
LevelOfReturned(score) ==
    IF score >= 10 * StrongFrom THEN "strong"
    ELSE IF score >= 10 * ChoppyFrom THEN "choppy"
    ELSE "weak"

\* C19 as stated: the record for no quotes is {weak, 3}; otherwise the level is
\* strong iff the returned score >= 7, choppy iff 5 <= returned score < 7 and weak
\* iff the returned score < 5.
C19_LevelByReturnedScore ==
    market_strength # NotCalled =>
        /\ quotes = <<>> =>
              (market_strength.level = "weak" /\ market_strength.score = EmptyScore)
        /\ quotes # <<>> =>
              market_strength.level = LevelOfReturned(market_strength.score)

\* C19 amended: the record for no quotes is {weak, 3}; otherwise the level is
\* decided by the score before it is rounded to the one decimal returned, so the
\* level is strong if the returned score > 7, choppy if 5 < returned score < 7,
\* weak if the returned score < 5, strong or choppy if the returned score is
\* exactly 7.0 and choppy or weak if it is exactly 5.0.
C19_LevelByScore ==
    market_strength # NotCalled =>
        /\ quotes = <<>> =>
              (market_strength.level = "weak" /\ market_strength.score = EmptyScore)
        /\ quotes # <<>> =>
              LET score == market_strength.score
                  level == market_strength.level
              IN  /\ level \in {"strong", "choppy", "weak"}
                  /\ score \notin {10 * StrongFrom, 10 * ChoppyFrom}
                        => level = LevelOfReturned(score)
                  /\ score = 10 * StrongFrom => level \in {"strong", "choppy"}
                  /\ score = 10 * ChoppyFrom => level \in {"choppy", "weak"}

\* One quote of 6.15% on 5 million and no summary: the score is
\* 2.46 + 1.5 + 3 = 6.96, returned as 7.0 with level choppy
C19_Witness ==
    /\ quotes = <<Quote(615, 500)>>
    /\ sentiment_analysis = NoSummary
    /\ market_strength # NotCalled
    /\ market_strength.score = 10 * StrongFrom
    /\ market_strength.level = "choppy"

\* C20 as stated: the notes come from four independent checks, (a) the top quote's
\* change_pct (> 8, or > 5 and <= 8: one risk note), (b) the sentiment score
\* (> 0.8 a risk note, < 0.3 an opportunity note), (c) the mean amount over the
\* top 5 quotes (< 500,000 a risk note, > 2,000,000 an opportunity note), (d) the
\* top ranking (popularity_score > 9 a risk note, else avg_change > 5 an
\* opportunity note); the level is high for 3 or more risk notes, medium for 1 or
\* 2, low for none, and the suggestion is the fixed string of the level.
C20_RiskNotes ==
    risk_assessment # NotCalled =>
        LET top == Slice(quotes, TopQuotes)
            m == Len(top)
            sentiment_score == IF sentiment_analysis = NoSummary THEN DefaultSentiment
                               ELSE sentiment_analysis.avg_sentiment
            a_risk == IF quotes = <<>> THEN <<>>
                      ELSE IF quotes[1].change_pct > GainHighAbove
                           THEN <<Note("gain_too_large", "")>>
                      ELSE IF quotes[1].change_pct > GainModerateAbove
                           THEN <<Note("gain_divergence", "")>>
                      ELSE <<>>
            b_risk == IF sentiment_score > SentimentHotAbove
                      THEN <<Note("sentiment_overheated", "")>> ELSE <<>>
            b_opp == IF sentiment_score < SentimentColdBelow
                     THEN <<Note("sentiment_depressed", "")>> ELSE <<>>
            \* mean amount < 500,000 and > 2,000,000, without dividing
            c_risk == IF m > 0 /\ SumField(top, "amount") < VolumeLowBelow * m
                      THEN <<Note("volume_low", "")>> ELSE <<>>
            c_opp == IF m > 0 /\ SumField(top, "amount") > VolumeHighAbove * m
                     THEN <<Note("volume_active", "")>> ELSE <<>>
            d_risk == IF theme_analysis # <<>>
                         /\ theme_analysis[1].popularity_score > ThemeHotAbove
                      THEN <<Note("theme_overheated", theme_analysis[1].theme_name)>>
                      ELSE <<>>
            d_opp == IF theme_analysis # <<>>
                        /\ theme_analysis[1].popularity_score <= ThemeHotAbove
                        /\ theme_analysis[1].avg_change > ThemeMomentumAbove
                     THEN <<Note("theme_momentum", theme_analysis[1].theme_name)>>
                     ELSE <<>>
            risks == a_risk \o b_risk \o c_risk \o d_risk
            level == IF Len(risks) >= 3 THEN "high"
                     ELSE IF Len(risks) >= 1 THEN "medium" ELSE "low"
        IN  /\ risk_assessment.risks = risks
            /\ risk_assessment.opportunities = b_opp \o c_opp \o d_opp
            /\ risk_assessment.level = level
            /\ risk_assessment.position_suggestion =
                  (CASE level = "high" -> "30-50"
                     [] level = "medium" -> "50-70"
                     [] OTHER -> "70-80")

\* What the themes given say of one theme name
ThemeNamesGiven == {hot_themes[k].theme_name : k \in 1..Len(hot_themes)}
Mentions(name) == SelectSeq(hot_themes, LAMBDA th : th.theme_name = name)
FirstMention(name) ==
    CHOOSE k \in 1..Len(hot_themes) :
        /\ hot_themes[k].theme_name = name
        /\ \A j \in 1..(k - 1) : hot_themes[j].theme_name # name
SourcesOf(name) == {Mentions(name)[k].source : k \in 1..Len(Mentions(name))}
NewsMatching(name) ==
    {k \in 1..Len(industry_news) :
        Contains(lower(industry_news[k].title \o <<" ">> \o industry_news[k].summary),
                 lower(name))}
\* The score the ranking gives or would give the theme
ScoreGiven(name) ==
    popularity_score(Len(Mentions(name)), SumField(Mentions(name), "change_pct"),
                     Cardinality(NewsMatching(name)), Cardinality(SourcesOf(name)),
                     sum_err)
Returned == {theme_analysis[i].theme_name : i \in 1..Len(theme_analysis)}

\* C14: the ranking has at most 10 records, one per distinct theme_name, in
\* descending popularity_score order, records of equal score in the order in which
\* their names first appear in the themes given; of more than 10 distinct themes
\* the 10 best under that order are returned; no themes give an empty ranking.
C14_TopTenStable ==
    ranked =>
        /\ Len(theme_analysis) = Min(TopThemes, Cardinality(ThemeNamesGiven))
        /\ Returned \subseteq ThemeNamesGiven
        /\ \A i, j \in 1..Len(theme_analysis) :
              i < j =>
                /\ theme_analysis[i].theme_name # theme_analysis[j].theme_name
                /\ theme_analysis[i].popularity_score >= theme_analysis[j].popularity_score
                /\ theme_analysis[i].popularity_score = theme_analysis[j].popularity_score
                      => FirstMention(theme_analysis[i].theme_name)
                           < FirstMention(theme_analysis[j].theme_name)
        /\ \A d \in ThemeNamesGiven \ Returned :
              \A i \in 1..Len(theme_analysis) :
                \/ ScoreGiven(d) < theme_analysis[i].popularity_score
                \/ /\ ScoreGiven(d) = theme_analysis[i].popularity_score
                   /\ FirstMention(d) > FirstMention(theme_analysis[i].theme_name)
        /\ hot_themes = <<>> => theme_analysis = <<>>

\* More than ten distinct themes were given; ten are returned, a later theme
\* ahead of an earlier one by score, and equal scores next to each other
C14_Witness ==
    /\ ranked
    /\ Cardinality(ThemeNamesGiven) > TopThemes
    /\ Len(theme_analysis) = TopThemes
    /\ \E i \in 1..(TopThemes - 1) :
          theme_analysis[i].popularity_score = theme_analysis[i + 1].popularity_score
    /\ \E i \in 1..(TopThemes - 1) :
          /\ theme_analysis[i].popularity_score > theme_analysis[i + 1].popularity_score
          /\ FirstMention(theme_analysis[i].theme_name)
               > FirstMention(theme_analysis[i + 1].theme_name)

\* The numerator of count * 0.4 + (avg_change / 10) * 0.3 + news_count * 0.2
\* + source_count * 0.1 over the denominator 10000 * count, from the themes and
\* news given, with avg_change = total_change / count
FormulaNum(name) ==
    LET count == Len(Mentions(name))
    IN  4000 * count * count + 3 * SumField(Mentions(name), "change_pct")
        + 2000 * count * Cardinality(NewsMatching(name))
        + 1000 * count * Cardinality(SourcesOf(name))

\* C15 as stated: every returned popularity_score equals
\* count * 0.4 + (avg_change / 10) * 0.3 + news_count * 0.2 + source_count * 0.1.
C15_ScoreExact ==
    ranked =>
        \A i \in 1..Len(theme_analysis) :
            LET e == theme_analysis[i]
            IN  e.popularity_score * 100 * Len(Mentions(e.theme_name))
                    = FormulaNum(e.theme_name)

\* C15 amended: every returned popularity_score is that value rounded to two
\* decimals, with count the number of themes of that name, avg_change =
\* total_change / count (not rounded, possibly negative), news_count the number
\* of all news matching the theme and source_count the number of distinct
\* sources; the avg_change returned is total_change / count rounded to two
\* decimals; one mention, one source, no change and no news score exactly 0.5.
C15_ScoreRounded ==
    ranked =>
        \A i \in 1..Len(theme_analysis) :
            LET e == theme_analysis[i]
                count == Len(Mentions(e.theme_name))
                total_change == SumField(Mentions(e.theme_name), "change_pct")
                off == e.popularity_score * 100 * count - FormulaNum(e.theme_name)
                avg_off == e.avg_change * count - total_change
            IN  /\ e.count = count
                /\ e.news_count = Cardinality(NewsMatching(e.theme_name))
                /\ e.source_count = Cardinality(SourcesOf(e.theme_name))
                /\ Len(e.related_news) = Min(e.news_count, NewsKept)
                /\ 2 * off <= 100 * count /\ 2 * off >= -(100 * count)
                /\ 2 * avg_off <= count /\ 2 * avg_off >= -count
                /\ (count = 1 /\ total_change = 0 /\ e.news_count = 0
                      /\ e.source_count = 1) => e.popularity_score = 50

\* A theme with four matching news of which three are kept, a negative change
\* and a score that is not a whole number of hundredths before rounding
C15_Witness ==
    /\ ranked
    /\ \E i \in 1..Len(theme_analysis) :
          /\ theme_analysis[i].news_count = 4
          /\ Len(theme_analysis[i].related_news) = NewsKept
    /\ \E i \in 1..Len(theme_analysis) :
          LET e == theme_analysis[i]
          IN  /\ e.avg_change < 0
              /\ e.popularity_score * 100 * e.count # FormulaNum(e.theme_name)
    /\ \E i \in 1..Len(theme_analysis) :
          LET e == theme_analysis[i]
          IN  e.count = 1 /\ e.avg_change = 0 /\ e.news_count = 0
              /\ e.source_count = 1 /\ e.popularity_score = 50

\* The figures of a ranking record that C16 speaks of
Figures(e) == <<e.popularity_score, e.count, e.avg_change, e.news_count, e.source_count>>

\* C16: whatever order the same themes are given in (the news unchanged), each
\* theme_name gets the same popularity_score, count, avg_change, news_count and
\* source_count as in the first call.  (hot_themes is at all times a reordering
\* of the themes of the first call.)
C16_OrderIndependent ==
    (ranked /\ first_call # NotCalled) =>
        \A i \in 1..Len(theme_analysis) :
            \A j \in 1..Len(first_call.ranking) :
                theme_analysis[i].theme_name = first_call.ranking[j].theme_name
                    => Figures(theme_analysis[i]) = Figures(first_call.ranking[j])

\* C17: called again on the very same themes and news, analyze_theme_popularity
\* returns the list it returned the first time, leading_stocks and their order
\* included.
C17_Deterministic ==
    (ranked /\ first_call # NotCalled /\ shuffles = 0
       /\ hot_themes = first_call.themes)
        => theme_analysis = first_call.ranking

\* The theme-focus notes of a strategy
FocusNotes(str) == SelectSeq(str, LAMBDA b : b.block = "focus")

\* C21: generate_strategy appends the theme-focus note exactly when the ranking
\* has at least 2 themes, the note then naming the first and the second; with
\* 0 or 1 themes the strategy is the template alone.
C21_FocusFromTwo ==
    strategy # <<>> =>
        /\ (FocusNotes(strategy) # <<>>) <=> (Len(theme_analysis) >= 2)
        /\ Len(theme_analysis) >= 2 =>
               FocusNotes(strategy) = <<FocusNote(theme_analysis[1].theme_name,
                                                  theme_analysis[2].theme_name)>>
        /\ Len(theme_analysis) < 2 => Len(strategy) = 1

\* C21 (amended): generate_strategy appends one theme-focus note, after the
\* template, exactly when the ranking has at least 1 theme; with 2 or more it
\* names the first and the second, with exactly 1 it names that theme and an
\* empty second name; with 0 themes the strategy is the template alone.
C21_FocusFromOne ==
    strategy # <<>> =>
        /\ strategy[1].block # "focus"
        /\ (FocusNotes(strategy) # <<>>) <=> (Len(theme_analysis) >= 1)
        /\ Len(theme_analysis) >= 2 =>
               Tail(strategy) = <<FocusNote(theme_analysis[1].theme_name,
                                            theme_analysis[2].theme_name)>>
        /\ Len(theme_analysis) = 1 =>
               Tail(strategy) = <<FocusNote(theme_analysis[1].theme_name, "")>>
        /\ Len(theme_analysis) = 0 => Len(strategy) = 1

C21_Witness ==
    /\ strategy # <<>>
    /\ Len(theme_analysis) = 1
    /\ Len(strategy) = 2
    /\ strategy[2].first = theme_analysis[1].theme_name

\* The template the claim gives for a pair of levels
TemplateClaimed(strength, risk) ==
    CASE strength = "strong" /\ risk = "low" -> "aggressive"
      [] strength = "strong" /\ risk = "medium" -> "structural"
      [] strength = "strong" /\ risk = "high" -> "defensive"
      [] strength = "choppy" -> "range_bound"
      [] strength = "weak" -> "defensive"

\* C22: the strategy holds exactly one of the four templates, the one the pair
\* (strength level, risk level) selects: aggressive for (strong, low),
\* structural for (strong, medium), range-bound for choppy, defensive for all
\* other pairs; the ranking has no part in the choice.
C22_TemplateByLevels ==
    strategy # <<>> =>
        /\ market_strength.level \in StrengthLevels
        /\ risk_assessment.level \in RiskLevels
        /\ SelectSeq(strategy, LAMBDA b : b.block # "focus")
              = <<Template(TemplateClaimed(market_strength.level,
                                           risk_assessment.level))>>
        /\ strategy[1].block \in {"aggressive", "structural", "range_bound",
                                  "defensive"}

C22_Witness ==
    /\ strategy # <<>>
    /\ market_strength.level = "strong"
    /\ risk_assessment.level = "high"
    /\ theme_analysis # <<>>
    /\ strategy[1] = Template("defensive")

\* C23: with the default limits (reads 6 hours, sweep 7 days) and every file's
\* modification time being its stored timestamp, a file that clean_old_cache
\* removes is never one that get_cached_analysis would have returned at that
\* instant: it is expired for reads (or cannot be read at all).
C23_SweepSparesReusable ==
    [][\A i \in Procs :
         CleanOldCache(i) =>
             \A k \in DOMAIN store \ DOMAIN store' :
                 /\ get_cached_analysis(k, max_age_hours).outcome
                        \in {"expired", "unreadable"}
                 /\ ~NarrativeTruthy(get_cached_analysis(k, max_age_hours).value)
                 /\ (~json_load(store[k].content).raised =>
                        /\ fromisoformat(json_load(store[k].content).timestamp)
                              = store[k].mtime
                        /\ now - store[k].mtime >= max_age_hours)]_vars

\* A sweep has just removed an entry that a completed save had written
C23_Witness ==
    /\ pc[1] = "get"
    /\ ops[1] = <<"clean">>
    /\ \E k \in DOMAIN written : k \notin DOMAIN store

\* Both instances have finished their run on the same dataset, and some save
\* for its key has completed
BothDoneOn(k) ==
    /\ \A i \in Procs : pc[i] = "done" /\ cache_key[i] = k
    /\ k \in DOMAIN lastPut

\* No cache operation has raised to its caller and every finished instance has
\* returned a narrative
NoRaiseAndNarrative ==
    /\ \A i \in Procs : pc[i] # "raised"
    /\ \A i \in Procs : pc[i] = "done" => NarrativeTruthy(returned[i])

====
